---- MODULE Spec2Model ----
(***************************************************************************)
(* The NAIA scraper (src/naia_scraper.py): the standings tokenizer         *)
(* (_parse_standings_text, _parse_standings_text_dash_format), the         *)
(* extraction of a page (_extract_standings) and the update of the CSV     *)
(* file (update_csv_with_standings), each with a specification of its own: *)
(* Spec, SpecExtract and SpecCsv.  SpecScrape is the scraper's life over   *)
(* its processed URLs (scrape_standings, mark_url_processed,               *)
(* clear_processed_urls, a new scraper on the same file), SpecApi the data *)
(* loader and the endpoints of the API (src/api).                          *)
(* A text is a sequence of one-character strings; the regular expressions  *)
(* of the source are modelled by what Python's re does on such a sequence.  *)
(***************************************************************************)
EXTENDS Integers, Sequences, FiniteSets

VARIABLES text, standings, sources, positions, layout, raised, pc, gen

\* one call of _parse_standings_text
tokenizerVars == <<text, standings, sources, positions, layout, raised, pc, gen>>

\* _extract_standings: the parsed page and the year it is called with, the headings
\* found, the number of them the loop has been through, the list being built, what
\* each pass of the loop did, the value returned, and what there was when the last
\* call was made (the year and result of the call before it, and the store)
VARIABLES soup, year, conf_headers, visited, all_standings, passes, returned, before

extractVars == <<soup, year, conf_headers, visited, all_standings, passes, returned, before>>

\* what outlives a call: the scraper's processed URLs, the processed-URL file and
\* the CSV file
VARIABLES processed_urls, processed_urls_file, csv_file

storeVars == <<processed_urls, processed_urls_file, csv_file>>

\* what scrape_standings returned, when the last operation on the scraper was that
\* call or the update of the CSV file after it; what the last operation on the
\* scraper did (whether it fetched, extracted, wrote its file); and the URLs the
\* scraper object has scraped with success since it was made or cleared
VARIABLES result, effects, marked

scrapeVars == <<result, effects, marked>>

\* the DataLoader of the API, the answer to the last request, and what the last
\* load_data call went through
VARIABLES data_loader, response, load

apiVars == <<data_loader, response, load>>

vars == <<tokenizerVars, extractVars, storeVars, scrapeVars, apiVars>>

(***************************************************************************)
(* Character classes of Python's re and str on the modelled alphabet.      *)
(***************************************************************************)
Digit == {"0", "1", "2", "3", "4", "5", "6", "7", "8", "9"}

Upper == {"A", "B", "C", "D", "E", "F", "G", "H", "I", "J", "K", "L", "M",
          "N", "O", "P", "Q", "R", "S", "T", "U", "V", "W", "X", "Y", "Z"}

Lower == {"a", "b", "c", "d", "e", "f", "g", "h", "i", "j", "k", "l", "m",
          "n", "o", "p", "q", "r", "s", "t", "u", "v", "w", "x", "y", "z"}

\* \s and the characters str.strip() removes
Space == {" ", "\t", "\n"}

\* \w
WordChar == Upper \cup Lower \cup Digit \cup {"_"}

\* what '.' matches without re.DOTALL: anything but a line break
DotChar(c) == c # "\n"

(***************************************************************************)
(* Sequence helpers.                                                       *)
(***************************************************************************)
MinOf(S) == CHOOSE x \in S : \A y \in S : x <= y

\* s[a:] of Python for a 1-based first index a
From(s, a) == SubSeq(s, a, Len(s))

RECURSIVE Flatten(_)
Flatten(ss) == IF ss = <<>> THEN <<>> ELSE Head(ss) \o Flatten(Tail(ss))

\* the first index >= i of s whose character is outside cls, Len(s)+1 if none
SkipClass(s, i, cls) ==
    IF i > Len(s) THEN Len(s) + 1
    ELSE CHOOSE j \in i..(Len(s) + 1) :
            /\ j > Len(s) \/ s[j] \notin cls
            /\ \A k \in i..(j - 1) : s[k] \in cls

\* the first index >= i of s whose character is in cls, Len(s)+1 if none
FirstIn(s, i, cls) ==
    IF i > Len(s) THEN Len(s) + 1
    ELSE CHOOSE j \in i..(Len(s) + 1) :
            /\ j > Len(s) \/ s[j] \in cls
            /\ \A k \in i..(j - 1) : s[k] \notin cls

\* the number of characters at the end of s that are in cls
TrailingIn(s, cls) ==
    CHOOSE n \in 0..Len(s) :
        /\ n = Len(s) \/ s[Len(s) - n] \notin cls
        /\ \A k \in 1..n : s[Len(s) - k + 1] \in cls

\* sub in s
Contains(s, sub) ==
    \E i \in 1..(Len(s) - Len(sub) + 1) : SubSeq(s, i, i + Len(sub) - 1) = sub

\* str.strip()
Strip(s) == SubSeq(s, SkipClass(s, 1, Space), Len(s) - TrailingIn(s, Space))

\* str.rstrip(chars)
RStrip(s, chars) == SubSeq(s, 1, Len(s) - TrailingIn(s, chars))

\* str.isdigit()
IsDigitStr(s) == s # <<>> /\ \A i \in 1..Len(s) : s[i] \in Digit

DigitChar(d) == CASE d = 0 -> "0" [] d = 1 -> "1" [] d = 2 -> "2" [] d = 3 -> "3"
                  [] d = 4 -> "4" [] d = 5 -> "5" [] d = 6 -> "6" [] d = 7 -> "7"
                  [] d = 8 -> "8" [] d = 9 -> "9"

\* str(n) for n >= 0
RECURSIVE Str(_)
Str(n) == IF n < 10 THEN <<DigitChar(n)>> ELSE Str(n \div 10) \o <<DigitChar(n % 10)>>

\* [e.strip() for e in pieces if e.strip()]
RECURSIVE StripNonEmpty(_)
StripNonEmpty(pieces) ==
    IF pieces = <<>> THEN <<>>
    ELSE LET e == Strip(Head(pieces))
         IN  (IF e = <<>> THEN <<>> ELSE <<e>>) \o StripNonEmpty(Tail(pieces))

\* a Python list index k (0-based, negative from the end) that does not raise
IndexOk(s, k) == -Len(s) <= k /\ k < Len(s)

\* s[k] of Python for an index that does not raise
PyGet(s, k) == IF k >= 0 THEN s[k + 1] ELSE s[Len(s) + k + 1]

NoMatch == [matched |-> FALSE, g1 |-> <<>>, g2 |-> <<>>]

(***************************************************************************)
(* The numeric run-on layout (_parse_standings_text, lines 198-234).       *)
(***************************************************************************)
\* (\d)\s+([A-Za-z]) matches at index i of t
BoundaryAtAnyLetter(t, i) ==
    LET j == SkipClass(t, i + 1, Space)
    IN  t[i] \in Digit /\ j > i + 1 /\ j <= Len(t) /\ t[j] \in Upper \cup Lower

\* (\d)\s+([A-Z]) matches at index i of t
BoundaryAt(t, i) ==
    LET j == SkipClass(t, i + 1, Space)
    IN  t[i] \in Digit /\ j > i + 1 /\ j <= Len(t) /\ t[j] \in Upper

\* re.sub(r'(\d)\s+([A-Z])', r'\1||\2', text), scanning from index i
RECURSIVE InsertDelimiter(_, _)
InsertDelimiter(t, i) ==
    LET at == {m \in i..Len(t) : BoundaryAt(t, m)}
    IN  IF at = {} THEN From(t, i)
        ELSE SubSeq(t, i, MinOf(at)) \o <<"|", "|">>
                \o InsertDelimiter(t, SkipClass(t, MinOf(at) + 1, Space))

\* delimited.split('||')
RECURSIVE SplitDelimiter(_)
SplitDelimiter(s) ==
    LET at == {i \in 1..(Len(s) - 1) : s[i] = "|" /\ s[i + 1] = "|"}
    IN  IF at = {} THEN <<s>>
        ELSE <<SubSeq(s, 1, MinOf(at) - 1)>> \o SplitDelimiter(From(s, MinOf(at) + 2))

RunOnEntries(t) == StripNonEmpty(SplitDelimiter(InsertDelimiter(t, 1)))

\* what \s+(\d{2,4})$ leaves of s: the digits, or <<>> when s does not match
RunOnTail(s) ==
    LET d == SkipClass(s, 1, Space)
        n == Len(s) - d + 1
    IN  IF d > 1 /\ n >= 2 /\ n <= 4 /\ IsDigitStr(From(s, d)) THEN From(s, d) ELSE <<>>

\* re.match(r'^(.+?)\s+(\d{2,4})$', entry): the shortest group 1 that lets the rest match
MatchRunOn(entry) ==
    LET ks == {k \in 1..Len(entry) :
                  /\ \A i \in 1..k : DotChar(entry[i])
                  /\ RunOnTail(From(entry, k + 1)) # <<>>}
    IN  IF ks = {} THEN NoMatch
        ELSE [matched |-> TRUE,
              g1 |-> SubSeq(entry, 1, MinOf(ks)),
              g2 |-> RunOnTail(From(entry, MinOf(ks) + 1))]

\* the 4-digit run kept whole
RunOnScoreWhole(score_combo) == score_combo

\* lines 222-226: a 4-digit run is score + next rank
RunOnScore(score_combo) ==
    IF Len(score_combo) = 4 THEN SubSeq(score_combo, 1, 3) ELSE score_combo

\* the rank always counted, the entry before never consulted
RunOnRankCounted(entries, i, standings_so_far) == Str(Len(standings_so_far) + 1)

\* lines 215-220: entries[i-1] when it is a bare number, else the next free position
RunOnRank(entries, i, standings_so_far) ==
    IF i > 0 /\ IsDigitStr(PyGet(entries, i - 1))
    THEN PyGet(entries, i - 1)
    ELSE Str(Len(standings_so_far) + 1)

\* the loop of lines 204-232 from Python index i.  acc holds the standings so far,
\* the entry each of them was read from with its Python index (at; the loops that
\* index their entries record it), and whether an index raised.
RECURSIVE RunOnLoop(_, _, _)
RunOnLoop(entries, i, acc) ==
    IF i >= Len(entries) \/ acc.raised THEN acc
    ELSE LET entry == PyGet(entries, i)
             m == MatchRunOn(entry)
         IN  IF IsDigitStr(entry) \/ ~m.matched
             THEN RunOnLoop(entries, i + 1, acc)
             ELSE IF i > 0 /\ ~IndexOk(entries, i - 1)
             THEN [acc EXCEPT !.raised = TRUE]
             ELSE RunOnLoop(entries, i + 1,
                    [acc EXCEPT
                       !.standings = Append(@, [rank |-> RunOnRank(entries, i, acc.standings),
                                                school |-> Strip(m.g1),
                                                score |-> RunOnScore(m.g2)]),
                       !.entries = Append(@, entry),
                       !.at = Append(@, i)])

EmptyResult == [raised |-> FALSE, standings |-> <<>>, entries |-> <<>>, at |-> <<>>]

ParseRunOn(t) == RunOnLoop(RunOnEntries(t), 0, EmptyResult)

(***************************************************************************)
(* The dash layouts (_parse_standings_text_dash_format, lines 125-179).    *)
(***************************************************************************)
\* re.search(r'^\d+\.\s+\w+', text.strip()), line 139
IsTournament(t) ==
    LET s == Strip(t)
        dot == SkipClass(s, 1, Digit)
        w == SkipClass(s, dot + 1, Space)
    IN  /\ dot > 1
        /\ dot <= Len(s) /\ s[dot] = "."
        /\ w > dot + 1
        /\ w <= Len(s) /\ s[w] \in WordChar

\* The index just after a match of \d+\.\s+ that starts at i, 0 when none starts there.
RankMarkerEnd(t, i) ==
    LET dot == SkipClass(t, i, Digit)
        e == SkipClass(t, dot + 1, Space)
    IN  IF dot > i /\ dot <= Len(t) /\ t[dot] = "." /\ e > dot + 1 THEN e ELSE 0

\* re.split(r'\d+\.\s+', text), line 142, of the text from index start on
RECURSIVE SplitRankMarkers(_, _)
SplitRankMarkers(t, start) ==
    LET at == {m \in start..Len(t) : RankMarkerEnd(t, m) # 0}
    IN  IF at = {} THEN <<From(t, start)>>
        ELSE <<SubSeq(t, start, MinOf(at) - 1)>>
                \o SplitRankMarkers(t, RankMarkerEnd(t, MinOf(at)))

\* \d+\.?\d* matches all of s
IsNumber(s) ==
    /\ s # <<>>
    /\ s[1] \in Digit
    /\ \A i \in 1..Len(s) : s[i] \in Digit \cup {"."}
    /\ Cardinality({i \in 1..Len(s) : s[i] = "."}) <= 1

\* what \s*-\s*(\d+\.?\d*)$ leaves of s: the number, or <<>> when s does not match
TournamentTail(s) ==
    LET dash == SkipClass(s, 1, Space)
        num == SkipClass(s, dash + 1, Space)
    IN  IF dash <= Len(s) /\ s[dash] = "-" /\ IsNumber(From(s, num))
        THEN From(s, num) ELSE <<>>

\* re.match(r'^(.+?)\s*-\s*(\d+\.?\d*)$', entry), line 147
MatchTournament(entry) ==
    LET ks == {k \in 1..Len(entry) :
                  /\ \A i \in 1..k : DotChar(entry[i])
                  /\ TournamentTail(From(entry, k + 1)) # <<>>}
    IN  IF ks = {} THEN NoMatch
        ELSE [matched |-> TRUE,
              g1 |-> SubSeq(entry, 1, MinOf(ks)),
              g2 |-> TournamentTail(From(entry, MinOf(ks) + 1))]

\* the rank counted from 0
PositionalRankFromZero(standings_so_far) == Str(Len(standings_so_far))

\* lines 150 and 172: rank = str(len(standings) + 1)
PositionalRank(standings_so_far) == Str(Len(standings_so_far) + 1)

\* the loop of lines 145-156 over the entries left
RECURSIVE TournamentLoop(_, _)
TournamentLoop(entries, acc) ==
    IF entries = <<>> THEN acc
    ELSE LET m == MatchTournament(Head(entries))
         IN  IF ~m.matched THEN TournamentLoop(Tail(entries), acc)
             ELSE TournamentLoop(Tail(entries),
                    [acc EXCEPT
                       !.standings = Append(@, [rank |-> PositionalRank(acc.standings),
                                                school |-> Strip(m.g1),
                                                score |-> m.g2]),
                       !.entries = Append(@, Head(entries))])

\* The index just after the match of \d+\.?\d* that starts at the digit t[i].
NumberEnd(t, i) ==
    LET dot == SkipClass(t, i, Digit)
    IN  IF dot <= Len(t) /\ t[dot] = "." THEN SkipClass(t, dot + 1, Digit) ELSE dot

\* re.split(r'(\d+\.?\d*)', text), line 160: text, number, text, ..., text
RECURSIVE SplitNumbers(_, _)
SplitNumbers(t, start) ==
    LET i == FirstIn(t, start, Digit)
    IN  IF i > Len(t) THEN <<SubSeq(t, start, Len(t))>>
        ELSE <<SubSeq(t, start, i - 1), SubSeq(t, i, NumberEnd(t, i) - 1)>>
                \o SplitNumbers(t, NumberEnd(t, i))

\* line 161: [p.strip() for p in parts if p.strip() and p.strip() != '-']
RECURSIVE DashParts(_)
DashParts(pieces) ==
    IF pieces = <<>> THEN <<>>
    ELSE LET p == Strip(Head(pieces))
         IN  (IF p = <<>> \/ p = <<"-">> THEN <<>> ELSE <<p>>) \o DashParts(Tail(pieces))

\* the trailing dash left on the name
CleanSchoolKeepDash(school_with_dash) == Strip(school_with_dash)

\* line 169: school_with_dash.rstrip(' -').strip()
CleanSchool(school_with_dash) == Strip(RStrip(school_with_dash, {" ", "-"}))

\* range(0, len(parts), 2): the loop also visits a last part that has no partner
PairStopAtEnd(parts) == Len(parts)

\* range(0, len(parts) - 1, 2), line 164: the Python indices the loop visits
PairStop(parts) == Len(parts) - 1

\* the loop of lines 164-177 from Python index i; the entry kept for a record is
\* its pair of parts, name then score
RECURSIVE DashLoop(_, _, _)
DashLoop(parts, i, acc) ==
    IF i >= PairStop(parts) \/ acc.raised THEN acc
    ELSE IF ~IndexOk(parts, i) \/ ~IndexOk(parts, i + 1)
    THEN [acc EXCEPT !.raised = TRUE]
    ELSE LET school == CleanSchool(PyGet(parts, i))
         IN  IF school = <<>> THEN DashLoop(parts, i + 2, acc)
             ELSE DashLoop(parts, i + 2,
                    [acc EXCEPT
                       !.standings = Append(@, [rank |-> PositionalRank(acc.standings),
                                                school |-> school,
                                                score |-> PyGet(parts, i + 1)]),
                       !.entries = Append(@, PyGet(parts, i) \o <<" ">> \o PyGet(parts, i + 1)),
                       !.at = Append(@, i)])

ParseDashFormat(t) ==
    IF IsTournament(t)
    THEN TournamentLoop(StripNonEmpty(SplitRankMarkers(t, 1)), EmptyResult)
    ELSE DashLoop(DashParts(SplitNumbers(t, 1)), 0, EmptyResult)

(***************************************************************************)
(* Format detection and dispatch (_parse_standings_text, lines 192-196).   *)
(***************************************************************************)
DetectWindow == 100

\* ' - ' in text: the window of 100 characters forgotten
UsesDashAnywhere(t) == Contains(t, <<" ", "-", " ">>)

\* ' - ' in text[:100]
UsesDash(t) == Contains(SubSeq(t, 1, IF Len(t) < DetectWindow THEN Len(t) ELSE DetectWindow),
                        <<" ", "-", " ">>)

LayoutOf(t) == IF ~UsesDash(t) THEN "runon"
               ELSE IF IsTournament(t) THEN "tournament" ELSE "dash"

ParseStandingsText(t) == IF UsesDash(t) THEN ParseDashFormat(t) ELSE ParseRunOn(t)

(***************************************************************************)
(* The blocks the tokenizer is run on.  gen tells how a block was put      *)
(* together: kind, a lead text and the items (name, num) that follow it.   *)
(***************************************************************************)
MaxItems == 2

MaxRawTokens == 3

SeqsUpTo(S, n) == UNION {[1..k -> S] : k \in 0..n}

Item(name, num) == [name |-> name, num |-> num]

RunOnNames == {<<"A", "b">>, <<"C", "d", " ", "E", "f">>, <<"G", "h", "\n", "I", "j">>, <<"k", "l">>}

RunOnNums == {<<"7">>, <<"9", "5">>, <<"2", "1", "6">>, <<"2", "1", "6", "2">>}

RunOnLeads == {<<>>, <<"1", " ">>, <<"2", " ">>}

DashNames == {<<"A", "b">>, <<"C", "d", "-", "E", "f">>, <<"G", "h", "\n", "I", "j">>, <<"K", "l", " ">>, <<>>}

DashNums == {<<"9", "5">>, <<"8", ".", "5">>, <<>>}

TournamentNames == {<<"A", "b">>, <<"C", "d", " ", "E", "f">>, <<"G", "h", "\n", "I", "j">>, <<"K", "l", " ", "-">>}

RawTokens == {<<"A">>, <<"b">>, <<"7">>, <<"2", "3">>, <<"3", "1", "4", "1", "5">>, <<" ">>, <<"-">>, <<" ", "-", " ">>, <<".">>, <<"\n">>, <<"|", "|">>}

\* a lead that puts a following ' - ' just inside or just outside the detection window
PadLens == (DetectWindow - 4)..(DetectWindow - 1)

Pad(n) == [i \in 1..n |-> "a"]

Example1 == <<"1", " ", "G", "r", "a", "n", "d", " ", "V", "i", "e", "w", " ", "2", "1", "6", "2", " ", "M", "i", "s", "s", "o", "u", "r", "i", " ", "V", "a", "l", "l", "e", "y", " ", "1", "9", "8", "3">>

Example2 == <<"G", "r", "a", "n", "d", " ", "V", "i", "e", "w", " ", "-", " ", "9", "5", "M", "i", "s", "s", "o", "u", "r", "i", " ", "V", "a", "l", "l", "e", "y", " ", "-", " ", "8", "8">>

Example3 == <<"1", ".", " ", "G", "r", "a", "n", "d", " ", "V", "i", "e", "w", " ", "-", " ", "9", "5", ".", "5", " ", "2", ".", " ", "M", "i", "s", "s", "o", "u", "r", "i", " ", "V", "a", "l", "l", "e", "y", " ", "-", " ", "8", "8">>

Examples == {Example1, Example2, Example3}

RECURSIVE Join(_, _)
Join(ss, sep) ==
    IF ss = <<>> THEN <<>>
    ELSE IF Len(ss) = 1 THEN ss[1]
    ELSE ss[1] \o sep \o Join(Tail(ss), sep)

RunOnFragment(it) == it.name \o <<" ">> \o it.num

DashFragment(it) == it.name \o <<" ", "-", " ">> \o it.num

TournamentFragment(its, i) == Str(i) \o <<".", " ">> \o DashFragment(its[i])

Render(g) ==
    CASE g.kind = "runon" ->
           g.lead \o Join([i \in 1..Len(g.items) |-> RunOnFragment(g.items[i])], <<" ">>)
      [] g.kind = "dash" ->
           g.lead \o Flatten([i \in 1..Len(g.items) |-> DashFragment(g.items[i])])
      [] g.kind = "tournament" ->
           Join([i \in 1..Len(g.items) |-> TournamentFragment(g.items, i)], <<" ">>)
      [] OTHER -> g.lead

Gen(kind, lead, items) == [kind |-> kind, lead |-> lead, items |-> items]

Blocks ==
    {Gen("runon", l, its) :
        l \in RunOnLeads, its \in SeqsUpTo({Item(n, d) : n \in RunOnNames, d \in RunOnNums}, MaxItems)}
    \cup {Gen("dash", <<>>, its) :
        its \in SeqsUpTo({Item(n, d) : n \in DashNames, d \in DashNums}, MaxItems)}
    \cup {Gen("dash", Pad(n), <<Item(<<>>, d)>>) : n \in PadLens, d \in DashNums}
    \cup {Gen("tournament", <<>>, its) :
        its \in SeqsUpTo({Item(n, d) : n \in TournamentNames, d \in DashNums}, MaxItems)}
    \cup {Gen("raw", Flatten(toks), <<>>) : toks \in SeqsUpTo(RawTokens, MaxRawTokens)}
    \cup {Gen("raw", e, <<>>) : e \in Examples}

(***************************************************************************)
(* The state machine: a block is handed to _parse_standings_text once.     *)
(***************************************************************************)
\* no page is being extracted
ExtractIdle ==
    /\ soup = <<>>
    /\ year = 0
    /\ conf_headers = <<>>
    /\ visited = 0
    /\ all_standings = <<>>
    /\ passes = <<>>
    /\ returned = <<>>
    /\ before = <<>>

\* the CSV file on disk: whether it can be opened, the cells of its first row and
\* of the rows after it, and whether the text after the first row can be decoded
\* as UTF-8 (the file is decoded piece by piece while it is read)
CsvFile(headers, rows) ==
    [exists |-> TRUE, headers |-> headers, rows |-> rows, rows_readable |-> TRUE]

NoCsvFile == [exists |-> FALSE, headers |-> <<>>, rows |-> <<>>, rows_readable |-> TRUE]

\* the file with a byte after its first row that is not UTF-8
UndecodableAfterHeader(file) == [file EXCEPT !.rows_readable = FALSE]

\* processed_urls.json on disk: whether it is there, whether json.load can read it,
\* and the list under its key 'urls'
UrlsFile(urls) == [exists |-> TRUE, valid |-> TRUE, urls |-> urls]

NoUrlsFile == [exists |-> FALSE, valid |-> FALSE, urls |-> <<>>]

\* a file that is not JSON, such as one cut off while it was written
BrokenUrlsFile == [exists |-> TRUE, valid |-> FALSE, urls |-> <<>>]

\* the lists that list(self.processed_urls) can give: the elements of the set,
\* each once, in any order
ListsOf(urls) ==
    {l \in [1..Cardinality(urls) -> urls] : {l[i] : i \in DOMAIN l} = urls}

\* _load_processed_urls, lines 31-46
LoadProcessedUrls(file) ==
    IF file.exists /\ file.valid THEN {file.urls[i] : i \in DOMAIN file.urls}
    ELSE {}

\* the file after a _save_processed_urls that ended as outcome says, lines 48-55:
\* written, not opened for writing (the file stays as it was), or opened and cut
\* off by an error of the write; no exception leaves the function
SavedProcessedUrls(urls, file, outcome) ==
    IF outcome = "written" THEN {UrlsFile(l) : l \in ListsOf(urls)}
    ELSE IF outcome = "not_opened" THEN {file}
    ELSE {BrokenUrlsFile}

SaveOutcomes == {"written", "not_opened", "cut_off"}

\* nothing processed, no file written
StoreEmpty ==
    /\ processed_urls = {}
    /\ processed_urls_file = NoUrlsFile
    /\ csv_file = NoCsvFile

\* scrape_standings has not been called
NoResult == [status |-> "none", url |-> "", reason |-> "", year |-> 0, data |-> <<>>]

NoEffects == [op |-> "none", url |-> "", fetched |-> FALSE, extracted |-> FALSE, saved |-> "no"]

ScrapeIdle ==
    /\ result = NoResult
    /\ effects = NoEffects
    /\ marked = {}

\* DataLoader.__init__, lines 13-19 of data_loader.py
NewDataLoader ==
    [schools_data |-> <<>>, standings_data |-> <<>>, conferences_cache |-> <<>>, loaded |-> FALSE]

NoResponse == [endpoint |-> "none", status |-> 0, detail |-> "", data |-> <<>>]

NoLoad == [called |-> FALSE, was_loaded |-> FALSE, main_read |-> FALSE,
           sorted_read |-> FALSE, cache_built |-> FALSE, returned |-> FALSE]

ApiIdle ==
    /\ data_loader = NewDataLoader
    /\ response = NoResponse
    /\ load = NoLoad

Init ==
    /\ gen \in Blocks
    /\ text = Render(gen)
    /\ standings = <<>>
    /\ sources = <<>>
    /\ positions = <<>>
    /\ layout = "none"
    /\ raised = FALSE
    /\ pc = "ready"
    /\ ExtractIdle
    /\ StoreEmpty
    /\ ScrapeIdle
    /\ ApiIdle

\* one call of _parse_standings_text(text), lines 181-234
Tokenize ==
    /\ pc = "ready"
    /\ LET r == ParseStandingsText(text)
       IN  /\ raised' = r.raised
           /\ standings' = IF r.raised THEN <<>> ELSE r.standings
           /\ sources' = IF r.raised THEN <<>> ELSE r.entries
           /\ positions' = IF r.raised THEN <<>> ELSE r.at
    /\ layout' = LayoutOf(text)
    /\ pc' = "done"
    /\ UNCHANGED <<text, gen, extractVars, storeVars, scrapeVars, apiVars>>

Next == Tokenize

Spec == Init /\ [][Next]_vars

(***************************************************************************)
(* Properties.                                                             *)
(***************************************************************************)
HasDigit(s) == \E i \in 1..Len(s) : s[i] \in Digit

HasLineBreak(s) == \E i \in 1..Len(s) : s[i] = "\n"

DigitVal(c) == CHOOSE d \in 0..9 : DigitChar(d) = c

\* the number a digit string writes
RECURSIVE Val(_)
Val(s) == IF s = <<>> THEN 0 ELSE 10 * Val(SubSeq(s, 1, Len(s) - 1)) + DigitVal(s[Len(s)])

\* digits with at most one decimal point
IsNumericRun(s) ==
    /\ HasDigit(s)
    /\ \A i \in 1..Len(s) : s[i] \in Digit \cup {"."}
    /\ Cardinality({i \in 1..Len(s) : s[i] = "."}) <= 1

TrailingDigits(e) == From(e, Len(e) - TrailingIn(e, Digit) + 1)

Rec(rank, school, score) == [rank |-> rank, school |-> school, score |-> score]

AllItems(P(_)) == \A i \in 1..Len(gen.items) : P(gen.items[i])

\* C1: _parse_standings_text never raises, whatever the text, and a text in which
\* nothing can match a record pattern (every pattern needs a digit) gives the empty list.
C1_NeverRaises ==
    pc = "done" => /\ ~raised
                   /\ ~HasDigit(text) => standings = <<>>

C1_Witness ==
    /\ pc = "done" /\ ~raised
    /\ text # <<>> /\ ~HasDigit(text) /\ layout = "dash" /\ standings = <<>>

\* C2: the ranks of one block's records are strictly increasing in list order.
C2_RanksStrictlyIncreasing ==
    pc = "done" =>
        \A i \in 1..(Len(standings) - 1) :
            Val(standings[i].rank) < Val(standings[i + 1].rank)

\* C3: the dash parser is used exactly when ' - ' lies within the first 100
\* characters of the text, the run-on parser otherwise.
C3_DashIffEarlySeparator ==
    pc = "done" =>
        LET early == \E i \in 1..(DetectWindow - 2) :
                        /\ i + 2 <= Len(text)
                        /\ text[i] = " " /\ text[i + 1] = "-" /\ text[i + 2] = " "
        IN  /\ layout \in {"dash", "tournament"} <=> early
            /\ layout = "runon" <=> ~early
            /\ standings = IF early THEN ParseDashFormat(text).standings
                                    ELSE ParseRunOn(text).standings

C3_Witness ==
    /\ pc = "done" /\ layout = "runon"
    /\ Len(text) > DetectWindow /\ Contains(text, <<" ", "-", " ">>)
    /\ standings # <<>>

ProperRunOnItem(it) ==
    /\ it.name # <<>> /\ it.name[1] \in Upper /\ ~HasDigit(it.name)
    /\ IsDigitStr(it.num) /\ Len(it.num) \in 2..4

\* C5: the rank 1 followed by k entries 'Name digits' (name starting with an uppercase
\* letter and without digits, 2 to 4 digits) gives k records in order with ranks 1..k
\* and the names as schools; the example of the specification gives its two records.
C5_RunOnRoundTrip ==
    /\ pc = "done" /\ gen.kind = "runon" /\ gen.lead = <<"1", " ">>
         /\ AllItems(ProperRunOnItem) /\ ~Contains(text, <<" ", "-", " ">>)
       => /\ Len(standings) = Len(gen.items)
          /\ \A i \in 1..Len(standings) :
                standings[i].rank = Str(i) /\ standings[i].school = gen.items[i].name
    /\ pc = "done" /\ text = Example1
       => standings = <<[rank |-> <<"1">>, school |-> <<"G", "r", "a", "n", "d", " ", "V", "i", "e", "w">>, score |-> <<"2", "1", "6">>],
                        [rank |-> <<"2">>, school |-> <<"M", "i", "s", "s", "o", "u", "r", "i", " ", "V", "a", "l", "l", "e", "y">>, score |-> <<"1", "9", "8">>]>>

\* What holds of C5's entries when no name has a line break in it.
RunOnRoundTripOnOneLineNames ==
    pc = "done" /\ gen.kind = "runon" /\ gen.lead = <<"1", " ">>
      /\ AllItems(ProperRunOnItem) /\ AllItems(LAMBDA it : ~HasLineBreak(it.name))
    => /\ Len(standings) = Len(gen.items)
       /\ \A i \in 1..Len(standings) :
             standings[i].rank = Str(i) /\ standings[i].school = gen.items[i].name

ProperDashItem(it) ==
    /\ Strip(it.name) # <<>> /\ ~HasDigit(it.name)
    /\ Strip(it.name)[1] \in Upper \cup Lower
    /\ Strip(it.name)[Len(Strip(it.name))] # "-"
    /\ IsNumber(it.num)

ProperTournamentItem(it) ==
    /\ Strip(it.name) # <<>> /\ Strip(it.name)[1] \in WordChar
    /\ IsNumber(it.num) /\ it.num[Len(it.num)] \in Digit

\* C7: a tournament text of k segments 'n. Name - number' gives k records in order
\* with ranks 1..k, the trimmed name as school and the number, decimal point
\* included, as score; the example of the specification gives its two records.
C7_TournamentRoundTrip ==
    /\ pc = "done" /\ gen.kind = "tournament" /\ AllItems(ProperTournamentItem)
       => standings = [i \in 1..Len(gen.items) |->
                          Rec(Str(i), Strip(gen.items[i].name), gen.items[i].num)]
    /\ pc = "done" /\ text = Example3
       => standings = <<[rank |-> <<"1">>, school |-> <<"G", "r", "a", "n", "d", " ", "V", "i", "e", "w">>, score |-> <<"9", "5", ".", "5">>],
                        [rank |-> <<"2">>, school |-> <<"M", "i", "s", "s", "o", "u", "r", "i", " ", "V", "a", "l", "l", "e", "y">>, score |-> <<"8", "8">>]>>

\* What holds of C7's segments when no name has a line break in it.
TournamentRoundTripOnOneLineNames ==
    pc = "done" /\ gen.kind = "tournament" /\ AllItems(ProperTournamentItem)
      /\ AllItems(LAMBDA it : ~HasLineBreak(it.name))
    => standings = [i \in 1..Len(gen.items) |->
                       Rec(Str(i), Strip(gen.items[i].name), gen.items[i].num)]

\* C8: every school is non-empty, has no blank at either end and does not end in '-'.
C8_SchoolIsClean ==
    pc = "done" =>
        \A i \in 1..Len(standings) :
            LET school == standings[i].school
            IN  /\ school # <<>>
                /\ Strip(school) = school
                /\ school[Len(school)] # "-"

\* C9: every score is empty or a numeric run of the text, and no school is a numeric run.
C9_ScoreNumericSchoolNot ==
    pc = "done" =>
        \A i \in 1..Len(standings) :
            /\ standings[i].score = <<>>
                 \/ (IsNumericRun(standings[i].score) /\ Contains(text, standings[i].score))
            /\ ~IsNumericRun(standings[i].school)

OneLineName(it) == ~HasLineBreak(it.name)

\* a fragment of the block's layout that is a record
WellFormed(it) ==
    CASE gen.kind = "runon" -> ProperRunOnItem(it) /\ OneLineName(it)
      [] gen.kind = "dash" -> ProperDashItem(it)
      [] gen.kind = "tournament" -> ProperTournamentItem(it) /\ OneLineName(it)
      [] OTHER -> FALSE

\* a fragment of the block's layout that matches no record pattern: a run-on entry
\* with a single digit, a dash fragment without a name, a tournament segment
\* without a score
Malformed(it) ==
    CASE gen.kind = "runon" ->
           /\ it.name # <<>> /\ it.name[1] \in Upper /\ ~HasDigit(it.name) /\ OneLineName(it)
           /\ IsDigitStr(it.num) /\ Len(it.num) = 1
      [] gen.kind = "dash" -> Strip(it.name) = <<>> /\ IsNumber(it.num)
      [] gen.kind = "tournament" ->
           /\ Strip(it.name) # <<>> /\ Strip(it.name)[1] \in WordChar /\ OneLineName(it)
           /\ it.num = <<>>
      [] OTHER -> FALSE

WellFormedOrMalformed(it) == WellFormed(it) \/ Malformed(it)

SchoolAndScore(r) == [school |-> r.school, score |-> r.score]

\* the school and score a well-formed fragment stands for
RecordOf(it) ==
    [school |-> Strip(it.name),
     score |-> IF gen.kind = "runon" /\ Len(it.num) = 4 THEN SubSeq(it.num, 1, 3) ELSE it.num]

FragmentRecords ==
    LET good == SelectSeq(gen.items, WellFormed)
    IN  [i \in 1..Len(good) |-> RecordOf(good[i])]

\* C10: in a block of well-formed and malformed fragments the malformed ones are
\* dropped and every well-formed one yields its own school and score, in order.
C10_MalformedDroppedAlone ==
    pc = "done" /\ gen.kind \in {"runon", "dash", "tournament"} /\ gen.lead \in RunOnLeads
      /\ AllItems(WellFormedOrMalformed)
      /\ (\E k \in 1..Len(gen.items) : WellFormed(gen.items[k]))
    => [i \in 1..Len(standings) |-> SchoolAndScore(standings[i])] = FragmentRecords

\* What holds of C10 in the run-on and the tournament layout.
MalformedDroppedAloneOutsideDash ==
    pc = "done" /\ gen.kind \in {"runon", "tournament"} /\ AllItems(WellFormedOrMalformed)
    => [i \in 1..Len(standings) |-> SchoolAndScore(standings[i])] = FragmentRecords

MalformedDroppedWitness ==
    /\ pc = "done" /\ gen.kind = "tournament" /\ AllItems(WellFormedOrMalformed)
    /\ Len(gen.items) = MaxItems /\ Malformed(gen.items[1]) /\ Len(standings) = MaxItems - 1

\* C20: in the run-on layout no record is read from an entry that is all digits, and
\* the rank of the k-th record is the entry just before its own in split order when
\* that entry is all digits, and otherwise k (one more than the records before it).
C20_RunOnRankFromEntryBefore ==
    pc = "done" /\ layout = "runon" =>
        LET entries == RunOnEntries(text)
        IN  /\ Len(positions) = Len(standings)
            /\ \A k \in 1..Len(standings) :
                  LET i == positions[k]
                  IN  /\ IndexOk(entries, i)
                      /\ PyGet(entries, i) = sources[k]
                      /\ ~IsDigitStr(PyGet(entries, i))
                      /\ k > 1 => positions[k - 1] < i
                      /\ standings[k].rank =
                            IF i > 0 /\ IsDigitStr(PyGet(entries, i - 1))
                            THEN PyGet(entries, i - 1)
                            ELSE Str(k)

\* a first record that takes the rank written in the all-digit entry before it,
\* which is not its position in the list
C20_Witness ==
    /\ pc = "done" /\ layout = "runon" /\ standings # <<>>
    /\ positions[1] = 1
    /\ standings[1].rank = <<"2">>
    /\ \E j \in 1..Len(RunOnEntries(text)) : IsDigitStr(RunOnEntries(text)[j])

(***************************************************************************)
(* The parsed page (the BeautifulSoup tree handed to _extract_standings).  *)
(* A page is the sequence of its nodes in document order; a node has the   *)
(* name of its tag ("#text" for a string), the index of its parent (0 is   *)
(* the body, the root of what is searched) and, for a string, its text.    *)
(***************************************************************************)
Tag(name, parent) == [name |-> name, parent |-> parent, string |-> <<>>]

NavigableString(parent, string) == [name |-> "#text", parent |-> parent, string |-> string]

\* tag.contents: the children of node n, in document order
Contents(d, n) == SelectSeq([i \in 1..Len(d) |-> i], LAMBDA i : d[i].parent = n)

\* n is node i or one of the nodes above it
RECURSIVE IsWithin(_, _, _)
IsWithin(d, i, n) ==
    IF i = n THEN TRUE
    ELSE IF i = 0 THEN FALSE
    ELSE IsWithin(d, d[i].parent, n)

\* tag.string: the one string a tag holds, through tags that hold one child only;
\* <<>> stands for None and <<s>> for the string s
RECURSIVE StringOf(_, _)
StringOf(d, n) ==
    LET contents == Contents(d, n)
    IN  IF Len(contents) # 1 THEN <<>>
        ELSE IF d[contents[1]].name = "#text" THEN <<d[contents[1]].string>>
        ELSE StringOf(d, contents[1])

\* tag.get_text(strip=True): the strings below the tag, each stripped, the empty
\* ones left out, joined with nothing between them
GetTextStrip(d, n) ==
    LET below == SelectSeq([i \in 1..Len(d) |-> i],
                           LAMBDA i : d[i].name = "#text" /\ i # n /\ IsWithin(d, i, n))
    IN  Flatten([k \in 1..Len(below) |-> Strip(d[below[k]].string)])

\* tag.find_previous_sibling(name): the nearest earlier child of the same parent
\* with that name, 0 for None
FindPreviousSibling(d, n, name) ==
    LET found == {j \in 1..(n - 1) : d[j].parent = d[n].parent /\ d[j].name = name}
    IN  IF found = {} THEN 0 ELSE CHOOSE j \in found : \A k \in found : k <= j

\* tag.find_next_sibling(name): the nearest later child of the same parent with
\* that name, 0 for None; the root has no siblings
FindNextSibling(d, n, name) ==
    LET found == IF n = 0 THEN {}
                 ELSE {j \in (n + 1)..Len(d) : d[j].parent = d[n].parent /\ d[j].name = name}
    IN  IF found = {} THEN 0 ELSE MinOf(found)

\* tag.find_next(name): the first node with that name after the tag in document
\* order, the nodes inside the tag included, 0 for None
FindNext(d, n, name) ==
    LET found == {j \in (n + 1)..Len(d) : d[j].name = name}
    IN  IF found = {} THEN 0 ELSE MinOf(found)

(***************************************************************************)
(* _extract_standings (lines 236-295).                                     *)
(***************************************************************************)
Conference == <<"C", "o", "n", "f", "e", "r", "e", "n", "c", "e">>

IndividualRankings == <<"I", "n", "d", "i", "v", "i", "d", "u", "a", "l", " ", "R", "a", "n", "k", "i", "n", "g", "s">>

\* the text has to be this long for its paragraph to be read
MinStandingsLen == 10

\* a heading before has to be shorter than this to be joined to the next one
MaxPrefixLen == 10

\* 'conference' accepted as well
IsConfHeaderAnyCase(d, n) ==
    /\ d[n].name = "strong"
    /\ StringOf(d, n) # <<>>
    /\ \/ Contains(StringOf(d, n)[1], Conference)
       \/ Contains(StringOf(d, n)[1], <<"c", "o", "n", "f", "e", "r", "e", "n", "c", "e">>)

\* line 250: soup.find_all('strong', string=lambda text: text and 'Conference' in text)
IsConfHeader(d, n) ==
    /\ d[n].name = "strong"
    /\ StringOf(d, n) # <<>>
    /\ StringOf(d, n)[1] # <<>>
    /\ Contains(StringOf(d, n)[1], Conference)

\* the headings from the last one of the page to the first
ConfHeadersLastFirst(d) ==
    LET found == SelectSeq([i \in 1..Len(d) |-> i], LAMBDA i : IsConfHeader(d, i))
    IN  [k \in 1..Len(found) |-> found[Len(found) - k + 1]]

ConfHeaders(d) == SelectSeq([i \in 1..Len(d) |-> i], LAMBDA i : IsConfHeader(d, i))

\* a text of exactly the limit joined as well
MergesPrefixUpToLimit(prev_text) ==
    Len(prev_text) <= MaxPrefixLen /\ ~Contains(prev_text, Conference)

\* lines 262-263: the text of the <strong> before is put in front of the name
MergesPrefix(prev_text) == Len(prev_text) < MaxPrefixLen /\ ~Contains(prev_text, Conference)

\* lines 255-263: conf_name
ConfName(d, conf) ==
    LET conf_name == GetTextStrip(d, conf)
        prev_strong == FindPreviousSibling(d, conf, "strong")
    IN  IF prev_strong # 0 /\ MergesPrefix(GetTextStrip(d, prev_strong))
        THEN GetTextStrip(d, prev_strong) \o conf_name
        ELSE conf_name

\* no paragraph looked for once a URL has been marked as processed
NextPUnlessProcessed(d, conf) ==
    LET current == d[conf].parent
        next_p == FindNextSibling(d, current, "p")
    IN  IF processed_urls # {} THEN 0
        ELSE IF next_p = 0 THEN FindNext(d, current, "p") ELSE next_p

\* lines 266-270: next_p, 0 for None
NextP(d, conf) ==
    LET current == d[conf].parent
        next_p == FindNextSibling(d, current, "p")
    IN  IF next_p = 0 THEN FindNext(d, current, "p") ELSE next_p

\* only a paragraph with 'Conference' in it passed over
SkipsConferenceOnly(standings_text) == Contains(standings_text, Conference)

\* line 276: the paragraph is passed over
SkipsText(standings_text) ==
    Contains(standings_text, Conference) \/ Len(standings_text) < MinStandingsLen

\* the text cut at the last occurrence of sep instead of the first
BeforeLast(t, sep) ==
    LET at == {i \in 1..(Len(t) - Len(sep) + 1) : SubSeq(t, i, i + Len(sep) - 1) = sep}
    IN  IF at = {} THEN t ELSE SubSeq(t, 1, (CHOOSE i \in at : \A j \in at : j <= i) - 1)

\* standings_text.split('Individual Rankings')[0]
BeforeFirst(t, sep) ==
    LET at == {i \in 1..(Len(t) - Len(sep) + 1) : SubSeq(t, i, i + Len(sep) - 1) = sep}
    IN  IF at = {} THEN t ELSE SubSeq(t, 1, MinOf(at) - 1)

\* lines 280-281
CutIndividualRankings(standings_text) ==
    IF Contains(standings_text, IndividualRankings)
    THEN Strip(BeforeFirst(standings_text, IndividualRankings))
    ELSE standings_text

\* the year written into place as well
StampedYearAsPlace(standing, conf_name, yr) ==
    [rank |-> standing.rank, school |-> standing.school, score |-> standing.score,
     conference |-> conf_name, year |-> yr, place |-> yr]

\* lines 286-291: the record with conference, year and place put on it
Stamped(standing, conf_name, yr) ==
    [rank |-> standing.rank, school |-> standing.school, score |-> standing.score,
     conference |-> conf_name, year |-> yr, place |-> standing.rank]

\* One pass of the loop of lines 254-292 for the heading conf: the name, the
\* paragraph and the text it finds, what it does with them, the text it hands to
\* _parse_standings_text (given says whether it hands one) and the records it
\* appends.
Pass(d, conf, yr) ==
    LET conf_name == ConfName(d, conf)
        next_p == NextP(d, conf)
        standings_text == IF next_p = 0 THEN <<>> ELSE GetTextStrip(d, next_p)
        given == next_p # 0 /\ ~SkipsText(standings_text)
        handed == IF given THEN CutIndividualRankings(standings_text) ELSE <<>>
        parsed == IF given THEN ParseStandingsText(handed) ELSE EmptyResult
    IN  [conf |-> conf,
         conf_name |-> conf_name,
         next_p |-> next_p,
         standings_text |-> standings_text,
         outcome |-> IF next_p = 0 THEN "no_paragraph"
                     ELSE IF ~given THEN "skipped"
                     ELSE IF parsed.raised THEN "raised" ELSE "parsed",
         given |-> given,
         handed |-> handed,
         standings |-> IF parsed.raised THEN <<>>
                       ELSE [k \in 1..Len(parsed.standings) |->
                                Stamped(parsed.standings[k], conf_name, yr)]]

(***************************************************************************)
(* The pages _extract_standings is run on.  A page is put together from    *)
(* sections, a heading part followed by a body part, either of which may   *)
(* be missing.  A part is written with parents relative to itself (0 is    *)
(* the body of the page) and placed after the nodes before it.             *)
(***************************************************************************)
MaxSections == 2

\* 'Cascade Conference'
CascadeConference == <<"C", "a", "s", "c", "a", "d", "e", " ", "C", "o", "n", "f", "e", "r", "e", "n", "c", "e">>

\* ' KCAC Conference\n'
KcacConferencePadded == <<" ", "K", "C", "A", "C", " ", "C", "o", "n", "f", "e", "r", "e", "n", "c", "e", "\n">>

\* 'Frontier conference'
FrontierLowercase == <<"F", "r", "o", "n", "t", "i", "e", "r", " ", "c", "o", "n", "f", "e", "r", "e", "n", "c", "e">>

\* 'Cas'
Cas == <<"C", "a", "s">>

\* 'cade Conference'
CadeConference == <<"c", "a", "d", "e", " ", "C", "o", "n", "f", "e", "r", "e", "n", "c", "e">>

\* '  NAIA West'
NaiaWestPadded == <<" ", " ", "N", "A", "I", "A", " ", "W", "e", "s", "t">>

\* 'NAIA'
Naia == <<"N", "A", "I", "A">>

\* 'NAIA South'
NaiaSouth == <<"N", "A", "I", "A", " ", "S", "o", "u", "t", "h">>

\* ' and '
AndBetween == <<" ", "a", "n", "d", " ">>

\* 'Cascade'
Cascade == <<"C", "a", "s", "c", "a", "d", "e">>

\* 'Ab 95 C 88'
TenChars == <<"A", "b", " ", "9", "5", " ", "C", " ", "8", "8">>

\* ' A 95 C 88\n'
NineCharsPadded == <<" ", "A", " ", "9", "5", " ", "C", " ", "8", "8", "\n">>

\* '\n Gh 70 Ij 65 '
PaddedSchools == <<"\n", " ", "G", "h", " ", "7", "0", " ", "I", "j", " ", "6", "5", " ">>

\* 'Ab - 95Cd - 8'
DashSchools == <<"A", "b", " ", "-", " ", "9", "5", "C", "d", " ", "-", " ", "8">>

\* 'Conference meet: Ab 95'
ConferenceNote == <<"C", "o", "n", "f", "e", "r", "e", "n", "c", "e", " ", "m", "e", "e", "t", ":", " ", "A", "b", " ", "9", "5">>

\* 'Ab 95 Cd 88 Individual Rankings 125: Ef 21'
WithIndividual == <<"A", "b", " ", "9", "5", " ", "C", "d", " ", "8", "8", " ", "I", "n", "d", "i", "v", "i", "d", "u", "a", "l", " ", "R", "a", "n", "k", "i", "n", "g", "s", " ", "1", "2", "5", ":", " ", "E", "f", " ", "2", "1">>

\* 'Ab 95 Individual Rankings 125'
ShortWithIndividual == <<"A", "b", " ", "9", "5", " ", "I", "n", "d", "i", "v", "i", "d", "u", "a", "l", " ", "R", "a", "n", "k", "i", "n", "g", "s", " ", "1", "2", "5">>

\* 'Ab 95 Cd 88Individual Rankings Ef 21 Individual Rankings'
TwiceIndividual == <<"A", "b", " ", "9", "5", " ", "C", "d", " ", "8", "8", "I", "n", "d", "i", "v", "i", "d", "u", "a", "l", " ", "R", "a", "n", "k", "i", "n", "g", "s", " ", "E", "f", " ", "2", "1", " ", "I", "n", "d", "i", "v", "i", "d", "u", "a", "l", " ", "R", "a", "n", "k", "i", "n", "g", "s">>

\* 'Ab 95 '
FirstLine == <<"A", "b", " ", "9", "5", " ">>

\* ' Cd 88'
SecondLine == <<" ", "C", "d", " ", "8", "8">>

\* <p><strong>h</strong></p>
HeadingPara(h) == <<Tag("p", 0), Tag("strong", 1), NavigableString(2, h)>>

\* <p><strong>a</strong><strong>h</strong></p>
SplitHeading(a, h) ==
    <<Tag("p", 0), Tag("strong", 1), NavigableString(2, a),
                   Tag("strong", 1), NavigableString(4, h)>>

\* <p><strong>a</strong>between<strong>h</strong></p>
SplitHeadingApart(a, between, h) ==
    <<Tag("p", 0), Tag("strong", 1), NavigableString(2, a), NavigableString(1, between),
                   Tag("strong", 1), NavigableString(5, h)>>

\* <p><strong>a</strong><strong>b</strong><strong>h</strong></p>
TripleHeading(a, b, h) ==
    <<Tag("p", 0), Tag("strong", 1), NavigableString(2, a),
                   Tag("strong", 1), NavigableString(4, b),
                   Tag("strong", 1), NavigableString(6, h)>>

\* <strong>h</strong> directly in the body
BareHeading(h) == <<Tag("strong", 0), NavigableString(1, h)>>

\* <div><p><strong>h</strong></p></div>
WrappedHeading(h) == <<Tag("div", 0), Tag("p", 1), Tag("strong", 2), NavigableString(3, h)>>

\* <p><strong>a<br/>b</strong></p>
BrokenHeading(a, b) ==
    <<Tag("p", 0), Tag("strong", 1), NavigableString(2, a), Tag("br", 2), NavigableString(2, b)>>

\* <p><strong><em>h</em></strong></p>
EmphasisedHeading(h) ==
    <<Tag("p", 0), Tag("strong", 1), Tag("em", 2), NavigableString(3, h)>>

\* <div><strong>h</strong><p>t</p></div>
HeadingWithParagraph(h, t) ==
    <<Tag("div", 0), Tag("strong", 1), NavigableString(2, h),
                     Tag("p", 1), NavigableString(4, t)>>

\* <p>t</p>
Para(t) == <<Tag("p", 0), NavigableString(1, t)>>

\* <p>t<br/>u</p>
ParaOfLines(t, u) == <<Tag("p", 0), NavigableString(1, t), Tag("br", 1), NavigableString(1, u)>>

\* the part with its parents counted from the base-th node of the page
Place(part, base) ==
    [i \in 1..Len(part) |->
        [part[i] EXCEPT !.parent = IF @ = 0 THEN 0 ELSE @ + base]]

RECURSIVE PageOf(_, _)
PageOf(parts, base) ==
    IF parts = <<>> THEN <<>>
    ELSE Place(Head(parts), base) \o PageOf(Tail(parts), base + Len(Head(parts)))

Section(head, body) == <<head, body>>

Heads ==
    {<<>>, HeadingPara(CascadeConference), HeadingPara(KcacConferencePadded),
     HeadingPara(FrontierLowercase), BareHeading(CascadeConference),
     SplitHeading(Cas, CadeConference),
     SplitHeading(NaiaSouth, CascadeConference), SplitHeading(NaiaWestPadded, CascadeConference),
     SplitHeading(CascadeConference, KcacConferencePadded),
     SplitHeadingApart(Cas, AndBetween, CadeConference),
     TripleHeading(Naia, Cas, CadeConference),
     WrappedHeading(CascadeConference), BrokenHeading(Cascade, Conference),
     EmphasisedHeading(CascadeConference), HeadingWithParagraph(CascadeConference, PaddedSchools)}

Bodies ==
    {<<>>, Para(TenChars), Para(DashSchools), Para(NineCharsPadded), Para(ShortWithIndividual),
     Para(PaddedSchools), Para(ConferenceNote), Para(WithIndividual), Para(TwiceIndividual),
     ParaOfLines(FirstLine, SecondLine)}

\* the sections that pages of more than one section are made of
Sections ==
    {Section(HeadingPara(CascadeConference), Para(TenChars)),
     Section(HeadingPara(KcacConferencePadded), Para(DashSchools)),
     Section(HeadingPara(CascadeConference), <<>>),
     Section(HeadingPara(KcacConferencePadded), Para(NineCharsPadded)),
     Section(HeadingPara(FrontierLowercase), Para(WithIndividual)),
     Section(SplitHeading(Cas, CadeConference), Para(ShortWithIndividual)),
     Section(BareHeading(CascadeConference), <<>>),
     Section(<<>>, Para(DashSchools))}

Pages ==
    {PageOf(Flatten(secs), 0) : secs \in SeqsUpTo(Sections, MaxSections)}
    \cup {PageOf(Section(h, b), 0) : h \in Heads, b \in Bodies}

Years == {2024, 2025}

Urls == {"u1", "u2"}

(***************************************************************************)
(* The state machine of _extract_standings: the page is searched for its   *)
(* headings, the loop goes through them one pass at a time, the list is    *)
(* returned; then the function may be called once more on the same page,   *)
(* and between the two calls the page's URL may be marked as processed.    *)
(***************************************************************************)
\* no block is being tokenized on its own
TokenizerIdle ==
    /\ gen = Gen("none", <<>>, <<>>)
    /\ text = <<>>
    /\ standings = <<>>
    /\ sources = <<>>
    /\ positions = <<>>
    /\ layout = "none"
    /\ raised = FALSE

\* the URL the page was fetched from
PageUrl == "u1"

InitExtract ==
    /\ TokenizerIdle
    /\ StoreEmpty
    /\ ScrapeIdle
    /\ ApiIdle
    /\ soup \in Pages
    /\ year \in Years
    /\ conf_headers = <<>>
    /\ visited = 0
    /\ all_standings = <<>>
    /\ passes = <<>>
    /\ returned = <<>>
    /\ before = <<>>
    /\ pc = "called"

\* lines 247-250
FindConfHeaders ==
    /\ pc = "called"
    /\ conf_headers' = ConfHeaders(soup)
    /\ visited' = 0
    /\ all_standings' = <<>>
    /\ passes' = <<>>
    /\ pc' = "loop"
    /\ UNCHANGED <<soup, year, returned, before, storeVars>>
    /\ UNCHANGED <<text, standings, sources, positions, layout, raised, gen>>
    /\ UNCHANGED <<scrapeVars, apiVars>>

\* the next pass of the loop, when it ends as outcome says
LoopPass(outcome) ==
    /\ pc = "loop"
    /\ visited < Len(conf_headers)
    /\ LET p == Pass(soup, conf_headers[visited + 1], year)
       IN  /\ p.outcome = outcome
           /\ passes' = Append(passes, p)
           /\ all_standings' = all_standings \o p.standings
    /\ visited' = visited + 1
    /\ UNCHANGED <<soup, year, conf_headers, returned, before, storeVars>>
    /\ UNCHANGED <<text, standings, sources, positions, layout, raised, gen>>
    /\ UNCHANGED <<scrapeVars, apiVars>>

\* lines 267-272: no paragraph after the heading
NoParagraph == LoopPass("no_paragraph") /\ pc' = "loop"

\* lines 276-277: continue
SkipParagraph == LoopPass("skipped") /\ pc' = "loop"

\* lines 280-292; an exception of _parse_standings_text would leave the function
ReadParagraph ==
    \E outcome \in {"parsed", "raised"} :
        LoopPass(outcome) /\ pc' = IF outcome = "raised" THEN "raised" ELSE "loop"

\* line 295
ReturnStandings ==
    /\ pc = "loop"
    /\ visited = Len(conf_headers)
    /\ returned' = all_standings
    /\ pc' = "returned"
    /\ UNCHANGED <<soup, year, conf_headers, visited, all_standings, passes, before, storeVars>>
    /\ UNCHANGED <<text, standings, sources, positions, layout, raised, gen>>
    /\ UNCHANGED <<scrapeVars, apiVars>>

\* mark_url_processed(url), lines 69-77, with _save_processed_urls, lines 48-55
MarkUrlProcessed(url) ==
    /\ pc = "returned"
    /\ url \notin processed_urls
    /\ processed_urls' = processed_urls \cup {url}
    /\ \E outcome \in SaveOutcomes :
          processed_urls_file' \in SavedProcessedUrls(processed_urls', processed_urls_file, outcome)
    /\ UNCHANGED <<csv_file, extractVars, tokenizerVars, scrapeVars, apiVars>>

\* _extract_standings called once more on the page, with any year
CallAgain ==
    /\ pc = "returned"
    /\ before = <<>>
    /\ before' = <<[year |-> year, returned |-> returned, passes |-> passes,
                    processed_urls |-> processed_urls,
                    processed_urls_file |-> processed_urls_file,
                    csv_file |-> csv_file]>>
    /\ year' \in Years
    /\ pc' = "called"
    /\ UNCHANGED <<soup, conf_headers, visited, all_standings, passes, returned, storeVars>>
    /\ UNCHANGED <<text, standings, sources, positions, layout, raised, gen>>
    /\ UNCHANGED <<scrapeVars, apiVars>>

NextExtract ==
    \/ FindConfHeaders
    \/ NoParagraph
    \/ SkipParagraph
    \/ ReadParagraph
    \/ ReturnStandings
    \/ MarkUrlProcessed(PageUrl)
    \/ CallAgain

SpecExtract == InitExtract /\ [][NextExtract]_vars

(***************************************************************************)
(* Properties of _extract_standings.                                       *)
(***************************************************************************)
\* the passes of the loop made so far in this call
AllPasses(P(_)) == \A k \in 1..Len(passes) : P(passes[k])

SomePass(P(_)) == \E k \in 1..Len(passes) : P(passes[k])

\* sub occurs in t at index i and nowhere before
FirstAt(t, sub, i) ==
    /\ i >= 1 /\ i + Len(sub) - 1 <= Len(t)
    /\ SubSeq(t, i, i + Len(sub) - 1) = sub
    /\ \A j \in 1..(i - 1) : SubSeq(t, j, j + Len(sub) - 1) # sub

\* C11: when the text of the paragraph contains 'Individual Rankings', what is
\* handed to _parse_standings_text is the part before the first occurrence,
\* trimmed; nothing handed to it contains 'Individual Rankings'.
C11_CutBeforeIndividualRankings ==
    AllPasses(LAMBDA p :
        p.given =>
            /\ ~Contains(p.handed, IndividualRankings)
            /\ Contains(p.standings_text, IndividualRankings) =>
                  \E i \in 1..Len(p.standings_text) :
                      /\ FirstAt(p.standings_text, IndividualRankings, i)
                      /\ p.handed = Strip(SubSeq(p.standings_text, 1, i - 1)))

\* a paragraph with 'Individual Rankings' twice has been cut and read
C11_Witness ==
    SomePass(LAMBDA p :
        /\ p.given /\ p.outcome = "parsed"
        /\ p.standings_text = TwiceIndividual
        /\ p.handed = <<"A", "b", " ", "9", "5", " ", "C", "d", " ", "8", "8">>
        /\ Len(p.standings) = 2)

\* q is the <strong> that comes before the heading c among the children of its
\* parent, with no other <strong> of that parent between them
StrongBefore(d, q, c) ==
    /\ q \in 1..(c - 1)
    /\ d[q].name = "strong" /\ d[q].parent = d[c].parent
    /\ \A j \in (q + 1)..(c - 1) : ~(d[j].name = "strong" /\ d[j].parent = d[c].parent)

\* the name the records of heading c should carry
NameWanted(d, c) ==
    LET own == GetTextStrip(d, c)
    IN  IF \E q \in 1..Len(d) : StrongBefore(d, q, c)
        THEN LET q == CHOOSE q \in 1..Len(d) : StrongBefore(d, q, c)
                 prefix == GetTextStrip(d, q)
             IN  IF Len(prefix) < 10 /\ ~Contains(prefix, Conference)
                 THEN prefix \o own
                 ELSE own
        ELSE own

\* C12: the records of a heading carry the text of the <strong> before it followed
\* by the heading's own text when that text is shorter than 10 characters and has
\* no 'Conference' in it, and the heading's own text otherwise; one <strong> at most
\* is joined, and the joined <strong> gets no pass of its own.
C12_PrefixMerged ==
    AllPasses(LAMBDA p :
        /\ p.conf_name = NameWanted(soup, p.conf)
        /\ \A k \in 1..Len(p.standings) : p.standings[k].conference = p.conf_name
        /\ \A q \in 1..Len(soup) :
              StrongBefore(soup, q, p.conf) /\ p.conf_name # GetTextStrip(soup, p.conf)
              => ~SomePass(LAMBDA other : other.conf = q))

\* 'Cas' and 'cade Conference' give one pass with records of 'Cascade Conference',
\* although 'NAIA' stands before 'Cas'
C12_Witness ==
    /\ pc = "returned"
    /\ Len(passes) = 1
    /\ \E q \in 1..Len(soup) : StrongBefore(soup, q, passes[1].conf)
                                 /\ FindPreviousSibling(soup, q, "strong") # 0
    /\ passes[1].conf_name = CascadeConference
    /\ passes[1].standings # <<>>
    /\ passes[1].standings[1].conference = CascadeConference

\* C13: a heading whose paragraph has 'Conference' in its text, or a text shorter
\* than 10 characters, or that has no paragraph, adds no record and raises nothing,
\* and the loop goes on: every heading gets its pass, in order, and the list is
\* what the passes that read a paragraph added.
C13_UnusablePassedOver ==
    /\ pc # "raised"
    /\ AllPasses(LAMBDA p :
          \/ p.next_p = 0
          \/ Contains(p.standings_text, Conference)
          \/ Len(p.standings_text) < 10
          => p.standings = <<>> /\ ~p.given /\ p.outcome \in {"no_paragraph", "skipped"})
    /\ all_standings = Flatten([k \in 1..Len(passes) |-> passes[k].standings])
    /\ Len(passes) = visited
    /\ \A k \in 1..Len(passes) : passes[k].conf = conf_headers[k]
    /\ pc = "returned" => visited = Len(conf_headers)

\* a heading with a paragraph of 9 characters is passed over and the heading after
\* it gives its records
C13_Witness ==
    /\ pc = "returned"
    /\ Len(passes) = 2
    /\ passes[1].outcome = "skipped" /\ Len(passes[1].standings_text) = 9
    /\ passes[2].outcome = "parsed" /\ Len(passes[2].standings) = 2
    /\ returned = passes[2].standings

\* C14: every text handed to _parse_standings_text has at least 10 characters after
\* trimming, so that a text that is blank or shorter than that gives no record.
C14_HandedTextLongEnough ==
    AllPasses(LAMBDA p : p.given => Len(Strip(p.handed)) >= 10)

\* What holds of C14: the text of the paragraph has at least 10 characters before
\* the part from 'Individual Rankings' on is cut off it.
HandedTextLongEnoughBeforeCut ==
    AllPasses(LAMBDA p : p.given => Len(p.standings_text) >= 10)

\* C15: only a <strong> whose text has 'Conference' in it, written so, is taken as
\* a heading; a <strong> without it, such as one with 'conference', gets no pass
\* and no record carries its text.
C15_HeadingNeedsConference ==
    /\ \A k \in 1..Len(conf_headers) :
          /\ soup[conf_headers[k]].name = "strong"
          /\ Contains(GetTextStrip(soup, conf_headers[k]), Conference)
    /\ AllPasses(LAMBDA p : Contains(GetTextStrip(soup, p.conf), Conference))
    /\ \A n \in 1..Len(soup) :
          soup[n].name = "strong" /\ ~Contains(GetTextStrip(soup, n), Conference)
          => /\ \A k \in 1..Len(conf_headers) : conf_headers[k] # n
             /\ \A k \in 1..Len(all_standings) :
                   all_standings[k].conference # GetTextStrip(soup, n)

\* 'Frontier conference' above a paragraph of standings: no heading, no record
C15_Witness ==
    /\ pc = "returned"
    /\ \E n \in 1..Len(soup) :
          /\ soup[n].name = "strong" /\ GetTextStrip(soup, n) = FrontierLowercase
          /\ NextP(soup, n) # 0
          /\ ParseStandingsText(GetTextStrip(soup, NextP(soup, n))).standings # <<>>
    /\ conf_headers = <<>>
    /\ passes = <<>>
    /\ returned = <<>>

\* the records the tokenizer gives for a text, in its order, with what
\* _extract_standings has to put on them
GroupWanted(handed, conf_name, yr) ==
    LET tokens == ParseStandingsText(handed).standings
    IN  [k \in 1..Len(tokens) |->
            [rank |-> tokens[k].rank, school |-> tokens[k].school, score |-> tokens[k].score,
             conference |-> conf_name, year |-> yr, place |-> tokens[k].rank]]

\* the passes that handed a text to the tokenizer
ReadingPasses == SelectSeq(passes, LAMBDA p : p.given)

\* C16: the list returned is, heading after heading in document order, the records
\* the tokenizer gave for the heading's text, in the tokenizer's order, each with
\* the heading's name, the year of the call, and place equal to rank.
C16_GroupedInDocumentOrder ==
    pc = "returned" =>
        /\ \A k \in 1..(Len(passes) - 1) : passes[k].conf < passes[k + 1].conf
        /\ {passes[k].conf : k \in 1..Len(passes)}
              = {n \in 1..Len(soup) : IsConfHeader(soup, n)}
        /\ returned = Flatten([k \in 1..Len(ReadingPasses) |->
                                  GroupWanted(ReadingPasses[k].handed,
                                              NameWanted(soup, ReadingPasses[k].conf), year)])
        /\ \A k \in 1..Len(returned) :
              returned[k].year = year /\ returned[k].place = returned[k].rank

\* two headings, each with records of its own, the earlier heading's first
C16_Witness ==
    /\ pc = "returned"
    /\ Len(returned) = 4
    /\ returned[1].conference = CascadeConference /\ returned[2].conference = CascadeConference
    /\ returned[3].conference = Strip(KcacConferencePadded)
    /\ returned[4].conference = Strip(KcacConferencePadded)
    /\ returned[1].school # returned[2].school
    /\ returned[4].school # returned[2].school

\* a step of _extract_standings, the tokenizer calls in it included
ExtractStep == FindConfHeaders \/ NoParagraph \/ SkipParagraph \/ ReadParagraph \/ ReturnStandings

\* the second call has returned and was made with the year of the first
SameCallTwice == pc = "returned" /\ before # <<>> /\ before[1].year = year

OtherYearCalled == pc = "returned" /\ before # <<>> /\ before[1].year # year

\* C18: two calls on the same page with different years return lists of the same
\* length whose records agree, position by position, in rank, school, score, place
\* and conference; the year of every record is the year of its call.
C18_YearOnlyInYear ==
    OtherYearCalled =>
        LET first == before[1].returned
        IN  /\ Len(returned) = Len(first)
            /\ \A k \in 1..Len(returned) :
                  /\ returned[k].rank = first[k].rank
                  /\ returned[k].school = first[k].school
                  /\ returned[k].score = first[k].score
                  /\ returned[k].place = first[k].place
                  /\ returned[k].conference = first[k].conference
                  /\ returned[k].year = year
                  /\ first[k].year = before[1].year

\* both calls returned records of two headings
C18_Witness ==
    /\ OtherYearCalled
    /\ Len(returned) >= 3
    /\ returned[1].conference # returned[Len(returned)].conference
    /\ returned[1].year # before[1].returned[1].year

(***************************************************************************)
(* update_csv_with_standings (lines 297-339) with CSVHandler.read_csv and  *)
(* write_csv (src/csv_handler.py).                                         *)
(***************************************************************************)
UpperLetters == <<"A", "B", "C", "D", "E", "F", "G", "H", "I", "J", "K", "L", "M",
                  "N", "O", "P", "Q", "R", "S", "T", "U", "V", "W", "X", "Y", "Z">>

LowerLetters == <<"a", "b", "c", "d", "e", "f", "g", "h", "i", "j", "k", "l", "m",
                  "n", "o", "p", "q", "r", "s", "t", "u", "v", "w", "x", "y", "z">>

\* str.lower()
ToLower(s) ==
    [i \in 1..Len(s) |->
        IF s[i] \in Upper
        THEN LowerLetters[CHOOSE k \in 1..Len(UpperLetters) : UpperLetters[k] = s[i]]
        ELSE s[i]]

\* line 27 of csv_handler.py: the file is opened in text mode without newline='',
\* so a line break inside a cell, written '\r\n' or '\r', is read as '\n'
UniversalNewlines(s) ==
    IF \A i \in 1..Len(s) : s[i] # "\r" THEN s
    ELSE LET keep == {i \in 1..Len(s) : ~(s[i] = "\n" /\ i > 1 /\ s[i - 1] = "\r")}
             at(k) == CHOOSE i \in keep : Cardinality({j \in keep : j <= i}) = k
         IN  [k \in 1..Cardinality(keep) |-> IF s[at(k)] = "\r" THEN "\n" ELSE s[at(k)]]

\* the cells of a row as csv.reader returns them
ReadRow(row) == [i \in 1..Len(row) |-> UniversalNewlines(row[i])]

\* read_csv(file_path), lines 13-43 of csv_handler.py: the first row and the rest,
\* both empty when the file cannot be opened; when reading fails after the first
\* row (line 33), the exception is caught and the rows are empty
ReadCsv(file) ==
    IF ~file.exists THEN [headers |-> <<>>, rows |-> <<>>]
    ELSE [headers |-> ReadRow(file.headers),
          rows |-> IF file.rows_readable
                   THEN [i \in 1..Len(file.rows) |-> ReadRow(file.rows[i])]
                   ELSE <<>>]

\* write_csv(file_path, headers, rows), lines 72-100 of csv_handler.py: the header
\* row, when there is one, and the rows; without headers the first of the rows is
\* what the next read_csv takes for the header row
WriteCsv(headers, rows) ==
    IF headers # <<>> THEN CsvFile(headers, rows)
    ELSE IF rows = <<>> THEN CsvFile(<<>>, <<>>)
    ELSE CsvFile(Head(rows), Tail(rows))

\* line 311: f"{year} Conference Team Place"
YearColumnName(yr) == Str(yr) \o <<" ", "C", "o", "n", "f", "e", "r", "e", "n", "c", "e", " ", "T", "e", "a", "m", " ", "P", "l", "a", "c", "e">>

\* headers.index(name), line 316, as a Python index
HeaderIndex(headers, name) == MinOf({i \in 1..Len(headers) : headers[i] = name}) - 1

\* a match only when the standing's school is part of the name in the file
NameMatchesOneWay(school_name, csv_school) ==
    Contains(ToLower(csv_school), ToLower(school_name))

\* line 329
NameMatches(school_name, csv_school) ==
    \/ Contains(ToLower(csv_school), ToLower(school_name))
    \/ Contains(ToLower(school_name), ToLower(csv_school))

\* lines 331-333: the row padded up to the year column and the place put there
WithPlace(row, year_col_index, place) ==
    [i \in 1..(IF Len(row) <= year_col_index THEN year_col_index + 1 ELSE Len(row)) |->
        IF i = year_col_index + 1 THEN place
        ELSE IF i <= Len(row) THEN row[i] ELSE <<>>]

\* lines 324-334: the first row with a school column that matches gets the place
UpdateForStanding(rows, standing, year_col_index) ==
    LET matching == {i \in 1..Len(rows) :
                        Len(rows[i]) > 1 /\ NameMatches(standing.school, PyGet(rows[i], 1))}
    IN  IF matching = {} THEN rows
        ELSE [rows EXCEPT ![MinOf(matching)] = WithPlace(@, year_col_index, standing.place)]

\* the loop of lines 319-334
RECURSIVE UpdateRows(_, _, _)
UpdateRows(rows, standings_data, year_col_index) ==
    IF standings_data = <<>> THEN rows
    ELSE UpdateRows(UpdateForStanding(rows, Head(standings_data), year_col_index),
                    Tail(standings_data), year_col_index)

(***************************************************************************)
(* The files and standings update_csv_with_standings is run on.            *)
(***************************************************************************)
MaxRows == 2

MaxStandings == 2

CollegeDivision == <<"C", "o", "l", "l", "e", "g", "e", " ", "D", "i", "v", "i", "s", "i", "o", "n">>

School == <<"S", "c", "h", "o", "o", "l">>

Region == <<"R", "e", "g", "i", "o", "n">>

\* the header rows: both year columns, one of them, and the year column also
\* standing in front of the school column
HeaderRows ==
    {<<CollegeDivision, School, Region, YearColumnName(2024), YearColumnName(2025)>>,
     <<CollegeDivision, School, Region, YearColumnName(2024)>>,
     <<YearColumnName(2025), School, Region, YearColumnName(2024), YearColumnName(2025)>>}

\* a full row written in lower case, a row that stops after the school, a row
\* without a school column and with a line break in its cell, a row with places
\* already in it and a row whose school is empty
CsvRows ==
    {<<<<"N">>, <<"a", "b", " ", "c", "o", "l", "l", "e", "g", "e">>, <<"I", "A">>, <<>>, <<>>>>,
     <<<<"N">>, <<"A", "b">>>>,
     <<<<"N", "\r", "\n", "A">>>>,
     <<<<"N">>, <<"C", "d">>, <<"I", "A">>, <<"7">>, <<"7">>>>,
     <<<<"N">>, <<>>, <<"K", "S">>>>}

StandingOf(school, place) ==
    [rank |-> place, school |-> school, score |-> <<"9", "5">>,
     conference |-> CascadeConference, year |-> 0, place |-> place]

CsvFiles ==
    {NoCsvFile, CsvFile(<<>>, <<>>)}
    \cup {CsvFile(h, rows) : h \in HeaderRows, rows \in SeqsUpTo(CsvRows, MaxRows)}
    \cup {UndecodableAfterHeader(CsvFile(h, <<row>>)) : h \in HeaderRows, row \in CsvRows}

\* a school that is part of a name in the file, one that has a name of the file
\* as a part, one that is not in the file and one without a name
Standings ==
    {StandingOf(<<"A", "b">>, <<"1">>),
     StandingOf(<<"A", "B", " ", "C", "O", "L", "L", "E", "G", "E", " ", "X">>, <<"2">>),
     StandingOf(<<"Z", "z">>, <<"3">>),
     StandingOf(<<>>, <<"4">>)}

StandingsLists == SeqsUpTo(Standings, MaxStandings)

(***************************************************************************)
(* The state machine of update_csv_with_standings: one call with the list  *)
(* a scrape returned and its year (main.py, line 131).                     *)
(***************************************************************************)
InitCsv ==
    /\ TokenizerIdle
    /\ soup = <<>>
    /\ conf_headers = <<>>
    /\ visited = 0
    /\ all_standings = <<>>
    /\ passes = <<>>
    /\ before = <<>>
    /\ returned \in StandingsLists
    /\ year \in Years
    /\ processed_urls = {}
    /\ processed_urls_file = NoUrlsFile
    /\ ScrapeIdle
    /\ ApiIdle
    /\ csv_file \in CsvFiles
    /\ pc = "update"

\* the file written back as it was read also when the year has no column
WrittenBackWithoutColumn(file, csv_data) == WriteCsv(csv_data.headers, csv_data.rows)

\* lines 312-314: the function returns before anything is written, the file stays
\* as it is
ReturnedWithoutWriting(file, csv_data) == file

\* what there is when the call is made
AtCall ==
    <<[year |-> year, returned |-> returned, passes |-> passes,
       processed_urls |-> processed_urls,
       processed_urls_file |-> processed_urls_file,
       csv_file |-> csv_file]>>

\* lines 306-314: the year column is not in the header row, nothing is written
UpdateWithoutColumn ==
    /\ pc = "update"
    /\ \A i \in 1..Len(ReadCsv(csv_file).headers) :
          ReadCsv(csv_file).headers[i] # YearColumnName(year)
    /\ csv_file' = ReturnedWithoutWriting(csv_file, ReadCsv(csv_file))
    /\ before' = AtCall
    /\ pc' = "updated"
    /\ UNCHANGED <<soup, year, conf_headers, visited, all_standings, passes, returned>>
    /\ UNCHANGED <<processed_urls, processed_urls_file>>
    /\ UNCHANGED <<text, standings, sources, positions, layout, raised, gen>>
    /\ UNCHANGED <<scrapeVars, apiVars>>

\* lines 306-339: the rows are updated and the file is written
UpdateCsvWithStandings ==
    /\ pc = "update"
    /\ LET csv_data == ReadCsv(csv_file)
           headers == csv_data.headers
           year_column_name == YearColumnName(year)
       IN  /\ \E i \in 1..Len(headers) : headers[i] = year_column_name
           /\ csv_file' = WriteCsv(headers,
                                   UpdateRows(csv_data.rows, returned,
                                              HeaderIndex(headers, year_column_name)))
    /\ before' = AtCall
    /\ pc' = "updated"
    /\ UNCHANGED <<soup, year, conf_headers, visited, all_standings, passes, returned>>
    /\ UNCHANGED <<processed_urls, processed_urls_file>>
    /\ UNCHANGED <<text, standings, sources, positions, layout, raised, gen>>
    /\ UNCHANGED <<scrapeVars, apiVars>>

NextCsv == UpdateWithoutColumn \/ UpdateCsvWithStandings

SpecCsv == InitCsv /\ [][NextCsv]_vars

(***************************************************************************)
(* Properties of update_csv_with_standings.                                *)
(***************************************************************************)
\* the file as it was when the call was made
FileAtCall == before[1].csv_file

\* what read_csv returned in the call, lines 306-308
ReadAtCall == ReadCsv(FileAtCall)

\* the 1-based position of the year's column in the header row, 0 when it has none
YearColumn ==
    LET at == {i \in 1..Len(ReadAtCall.headers) : ReadAtCall.headers[i] = YearColumnName(year)}
    IN  IF at = {} THEN 0 ELSE MinOf(at)

\* one text is part of the other when case is left aside
PartOfEachOther(a, b) == Contains(ToLower(a), ToLower(b)) \/ Contains(ToLower(b), ToLower(a))

\* the first row, in file order, with a school column whose name matches the
\* school of the j-th standing; 0 when no row does
RowFor(j) ==
    LET rows == ReadAtCall.rows
        matching == {i \in 1..Len(rows) :
                        Len(rows[i]) >= 2 /\ PartOfEachOther(returned[j].school, rows[i][2])}
    IN  IF matching = {} THEN 0 ELSE MinOf(matching)

\* C19: after update_csv_with_standings every standing's place has been written
\* into the year's column of the first row whose school matches it (the last such
\* standing's place is what stays there), no other row that was read has changed,
\* and so a standing without a matching row changes nothing.
C19_PlaceInFirstMatchingRow ==
    pc = "updated" /\ YearColumn # 0 =>
        /\ csv_file.headers = ReadAtCall.headers
        /\ Len(csv_file.rows) = Len(ReadAtCall.rows)
        /\ \A i \in 1..Len(csv_file.rows) :
              LET hits == {j \in 1..Len(returned) : RowFor(j) = i}
              IN  IF hits = {} THEN csv_file.rows[i] = ReadAtCall.rows[i]
                  ELSE /\ Len(csv_file.rows[i]) >= YearColumn
                       /\ csv_file.rows[i][YearColumn]
                            = returned[CHOOSE j \in hits : \A k \in hits : k <= j].place

\* two rows match the standing: the first one has its place, the second is as it was
C19_Witness ==
    /\ pc = "updated" /\ YearColumn # 0
    /\ Len(returned) = 1 /\ Len(ReadAtCall.rows) = 2
    /\ Len(ReadAtCall.rows[1]) >= 2 /\ Len(ReadAtCall.rows[2]) >= 2
    /\ ReadAtCall.rows[1] # ReadAtCall.rows[2]
    /\ PartOfEachOther(returned[1].school, ReadAtCall.rows[1][2])
    /\ PartOfEachOther(returned[1].school, ReadAtCall.rows[2][2])
    /\ returned[1].school # <<>> /\ ReadAtCall.rows[1][2] # <<>>
    /\ csv_file.rows[1][YearColumn] = returned[1].place
    /\ csv_file.rows[1] # ReadAtCall.rows[1]
    /\ csv_file.rows[2] = ReadAtCall.rows[2]

(***************************************************************************)
(* Further properties of the tokenizer.                                    *)
(***************************************************************************)
\* C21: in both dash layouts the k-th record of a block has rank k, so the ranks
\* are 1..n without gaps: the rank markers of the tournament layout are not read
\* as values, and a pair or a segment that gives no record takes no rank.
C21_DashRanksPositional ==
    pc = "done" /\ layout \in {"dash", "tournament"} =>
        \A k \in 1..Len(standings) : standings[k].rank = Str(k)

\* a tournament block whose first segment is discarded: the record of the segment
\* marked '2.' has rank 1
C21_Witness ==
    /\ pc = "done" /\ layout = "tournament" /\ gen.kind = "tournament"
    /\ Len(gen.items) = 2 /\ Malformed(gen.items[1]) /\ WellFormed(gen.items[2])
    /\ Len(standings) = 1
    /\ standings[1].school = Strip(gen.items[2].name)
    /\ standings[1].rank = <<"1">>

\* C22: in the run-on layout, when the text has no '||' in it, every entry after
\* the first starts with an upper-case letter, so only the first can be all digits;
\* only the first record can take its rank from the text, and the k-th record for
\* k > 1 has rank k.
C22_OnlyFirstRankFromText ==
    pc = "done" /\ layout = "runon" /\ ~Contains(text, <<"|", "|">>) =>
        LET entries == RunOnEntries(text)
        IN  /\ \A j \in 2..Len(entries) : entries[j][1] \in Upper /\ ~IsDigitStr(entries[j])
            /\ \A k \in 2..Len(standings) : standings[k].rank = Str(k)
            /\ standings # <<>> /\ standings[1].rank # <<"1">> =>
                  /\ IsDigitStr(entries[1])
                  /\ positions[1] = 1
                  /\ standings[1].rank = entries[1]

\* '2 ...' with two records: the first has the rank written in the text, the
\* second its position
C22_Witness ==
    /\ pc = "done" /\ layout = "runon" /\ ~Contains(text, <<"|", "|">>)
    /\ Len(standings) = 2
    /\ RunOnEntries(text)[1] = <<"2">>
    /\ standings[1].rank = <<"2">>
    /\ standings[2].rank = <<"2">>

(***************************************************************************)
(* Further properties of _extract_standings.                               *)
(***************************************************************************)
\* the paragraphs that are later siblings of the parent block of heading c
SiblingParagraphsAfterParent(d, c) ==
    IF d[c].parent = 0 THEN {}
    ELSE {j \in (d[c].parent + 1)..Len(d) :
             d[j].name = "p" /\ d[j].parent = d[d[c].parent].parent}

\* the paragraphs that come later in the page than heading c
ParagraphsAfterHeading(d, c) == {j \in (c + 1)..Len(d) : d[j].name = "p"}

\* the paragraph heading c should be paired with, 0 when there is none
ParagraphWanted(d, c) ==
    IF SiblingParagraphsAfterParent(d, c) # {} THEN MinOf(SiblingParagraphsAfterParent(d, c))
    ELSE IF ParagraphsAfterHeading(d, c) # {} THEN MinOf(ParagraphsAfterHeading(d, c))
    ELSE 0

\* C23: a heading is paired with the first paragraph among the later siblings of
\* its parent block, and when there is none with the next paragraph later in the
\* page; the paragraph is not used up, so the headings of one parent block are
\* paired with the same paragraph and each gets its records under its own name.
C23_PairedWithFollowingParagraph ==
    /\ AllPasses(LAMBDA p : p.next_p = ParagraphWanted(soup, p.conf))
    /\ \A k \in 1..Len(passes) : \A m \in 1..Len(passes) :
          soup[passes[k].conf].parent = soup[passes[m].conf].parent
          => /\ passes[k].next_p = passes[m].next_p
             /\ passes[k].handed = passes[m].handed
             /\ Len(passes[k].standings) = Len(passes[m].standings)

\* What holds of C23: without a paragraph among the later siblings of the parent
\* block, the heading is paired with the first paragraph after the start of the
\* parent block, which may stand inside the block and before the heading.
PairedWithParagraphAfterParentStart ==
    /\ AllPasses(LAMBDA p :
          p.next_p = IF SiblingParagraphsAfterParent(soup, p.conf) # {}
                     THEN MinOf(SiblingParagraphsAfterParent(soup, p.conf))
                     ELSE IF \E j \in (soup[p.conf].parent + 1)..Len(soup) : soup[j].name = "p"
                     THEN MinOf({j \in (soup[p.conf].parent + 1)..Len(soup) : soup[j].name = "p"})
                     ELSE 0)
    /\ \A k \in 1..Len(passes) : \A m \in 1..Len(passes) :
          soup[passes[k].conf].parent = soup[passes[m].conf].parent
          => /\ passes[k].next_p = passes[m].next_p
             /\ passes[k].handed = passes[m].handed
             /\ Len(passes[k].standings) = Len(passes[m].standings)

\* two headings of one paragraph block, both paired with the paragraph after it,
\* its records returned under the one name and then under the other
SharedParagraphWitness ==
    /\ pc = "returned" /\ Len(passes) = 2
    /\ soup[passes[1].conf].parent = soup[passes[2].conf].parent
    /\ passes[1].next_p # 0
    /\ passes[1].conf_name # passes[2].conf_name
    /\ passes[1].standings # <<>>
    /\ Len(returned) = 2 * Len(passes[1].standings)

(***************************************************************************)
(* Further properties of update_csv_with_standings.                        *)
(***************************************************************************)
\* C27: when the header row of the file has no column '<year> Conference Team
\* Place', and so also when the file cannot be read, update_csv_with_standings
\* writes nothing: the file is as it was, and no file is created.
C27_NothingWrittenWithoutColumn ==
    pc = "updated"
    /\ (\A i \in 1..Len(FileAtCall.headers) : FileAtCall.headers[i] # YearColumnName(year))
    => csv_file = FileAtCall

\* standings that match rows of a file without the column of the year: the file
\* with its rows is as it was; and a call when there is no file leaves no file
C27_Witness ==
    /\ pc = "updated" /\ YearColumn = 0
    /\ \/ /\ FileAtCall.exists /\ FileAtCall.headers # <<>> /\ FileAtCall.rows # <<>>
          /\ returned # <<>> /\ RowFor(1) # 0
          /\ csv_file = FileAtCall
       \/ /\ ~FileAtCall.exists /\ ~csv_file.exists /\ returned # <<>>

\* the row of the file is matched by some standing
Matched(i) ==
    \E j \in 1..Len(returned) :
        /\ Len(FileAtCall.rows[i]) >= 2
        /\ PartOfEachOther(returned[j].school, FileAtCall.rows[i][2])

\* the row now is the row then but for the cell of the year column, with empty
\* cells where the row then was shorter
SameButYearCell(now, then) ==
    /\ Len(now) \in {Len(then), YearColumn}
    /\ Len(now) >= Len(then)
    /\ \A c \in 1..Len(now) :
          c # YearColumn => now[c] = IF c <= Len(then) THEN then[c] ELSE <<>>

\* C28: update_csv_with_standings leaves the header row and the number and order
\* of the rows of the file as they were, and changes no cell but the cell of the
\* year column in rows matched by some standing, such a row being padded with
\* empty cells up to the year column; nothing is appended for other schools.
C28_OnlyYearCellsOfMatchedRows ==
    pc = "updated" =>
        /\ csv_file.exists = FileAtCall.exists
        /\ csv_file.headers = FileAtCall.headers
        /\ Len(csv_file.rows) = Len(FileAtCall.rows)
        /\ \A i \in 1..Len(csv_file.rows) :
              IF YearColumn # 0 /\ Matched(i)
              THEN SameButYearCell(csv_file.rows[i], FileAtCall.rows[i])
              ELSE csv_file.rows[i] = FileAtCall.rows[i]

\* What holds of C28: the frame is kept with regard to the header row and the rows
\* that read_csv returned, which are not always the rows of the file.
OnlyYearCellsOfMatchedRowsRead ==
    pc = "updated" /\ YearColumn # 0 =>
        /\ csv_file.headers = ReadAtCall.headers
        /\ Len(csv_file.rows) = Len(ReadAtCall.rows)
        /\ \A i \in 1..Len(csv_file.rows) :
              IF \E j \in 1..Len(returned) : RowFor(j) = i
              THEN SameButYearCell(csv_file.rows[i], ReadAtCall.rows[i])
              ELSE csv_file.rows[i] = ReadAtCall.rows[i]

\* the rows of the file are gone after the update
RowsLostWitness ==
    /\ pc = "updated" /\ YearColumn # 0
    /\ FileAtCall.rows # <<>> /\ csv_file.rows = <<>>

\* a cell of a row that no standing matches has changed
CellChangedWitness ==
    /\ pc = "updated" /\ YearColumn # 0
    /\ Len(csv_file.rows) = Len(FileAtCall.rows)
    /\ \E i \in 1..Len(csv_file.rows) :
          /\ Len(FileAtCall.rows[i]) = 1
          /\ csv_file.rows[i] # FileAtCall.rows[i]

(***************************************************************************)
(* The scraper object with its processed URLs: it is made (the file of     *)
(* processed URLs is loaded), scrape_standings is called with any URL and  *)
(* year, the CSV file is updated after a scrape that succeeded (main.py,   *)
(* lines 125-131), URLs are marked and cleared, and the scraper is made    *)
(* anew as in the next run of the program.                                 *)
(***************************************************************************)
\* _extract_standings(soup, year), lines 247-295, as one step: the records of the
\* passes over the headings found, in their order
RECURSIVE StandingsOfPasses(_, _, _)
StandingsOfPasses(d, confs, yr) ==
    IF confs = <<>> THEN <<>>
    ELSE Pass(d, Head(confs), yr).standings \o StandingsOfPasses(d, Tail(confs), yr)

ExtractStandings(d, yr) == StandingsOfPasses(d, ConfHeaders(d), yr)

\* the stepwise extraction returns what the one-step extraction gives
ReturnedIsExtractStandings == pc = "returned" => returned = ExtractStandings(soup, year)

\* a page with two records under a heading and a page without a heading
ScrapePages ==
    {PageOf(Section(HeadingPara(CascadeConference), Para(DashSchools)), 0),
     PageOf(Section(<<>>, Para(DashSchools)), 0)}

\* what the request for a URL can come to: an error of the request, an empty
\* body, or a page
WebResponses ==
    {[kind |-> "error", page |-> <<>>], [kind |-> "empty", page |-> <<>>]}
    \cup {[kind |-> "page", page |-> p] : p \in ScrapePages}

\* get_soup(url), lines 58-69 of web_parser.py: None when fetch_page returned None
\* (line 41) or an empty text (line 67)
GotSoup(resp) == resp.kind = "page"

\* the files the scraper can find when it is made
UrlsFilesAtStart == {NoUrlsFile, BrokenUrlsFile, UrlsFile(<<"u2", "u2">>)}

\* a file with a row for 'Ab' and the column of 2024 only
ScrapeCsvFiles ==
    {CsvFile(<<CollegeDivision, School, Region, YearColumnName(2024)>>,
             <<<<<<"N">>, <<"A", "b">>>>>>)}

\* what there is when an operation starts: the processed URLs and their file, and
\* of the operation before it which it was, on which URL, how its result and the
\* writing of the file came out
AtOperation ==
    <<[processed_urls |-> processed_urls,
       processed_urls_file |-> processed_urls_file,
       marked |-> marked,
       op |-> effects.op,
       url |-> effects.url,
       saved |-> effects.saved,
       status |-> IF effects.op = "scrape" THEN result.status ELSE "none"]>>

Effects(op, url, fetched, extracted, saved) ==
    [op |-> op, url |-> url, fetched |-> fetched, extracted |-> extracted, saved |-> saved]

InitScrape ==
    /\ TokenizerIdle
    /\ ApiIdle
    /\ soup = <<>>
    /\ year = 2024
    /\ conf_headers = <<>>
    /\ visited = 0
    /\ all_standings = <<>>
    /\ passes = <<>>
    /\ returned = <<>>
    /\ before = <<>>
    /\ processed_urls_file \in UrlsFilesAtStart
    /\ processed_urls = LoadProcessedUrls(processed_urls_file)
    /\ csv_file \in ScrapeCsvFiles
    /\ result = NoResult
    /\ effects = Effects("construct", "", FALSE, FALSE, "no")
    /\ marked = {}
    /\ pc = "scraper"

\* what no operation of the scraper touches
ScrapeFrame ==
    /\ UNCHANGED <<soup, year, conf_headers, visited, all_standings, passes, returned, pc>>
    /\ UNCHANGED <<text, standings, sources, positions, layout, raised, gen>>
    /\ UNCHANGED apiVars

\* NAIAScraper(), lines 17-29: a new scraper object takes the place of the old one
NewScraper ==
    /\ pc = "scraper"
    /\ before' = AtOperation
    /\ processed_urls' = LoadProcessedUrls(processed_urls_file)
    /\ result' = NoResult
    /\ effects' = Effects("construct", "", FALSE, FALSE, "no")
    /\ marked' = {}
    /\ UNCHANGED <<processed_urls_file, csv_file>>
    /\ ScrapeFrame

\* processed only when no other URL is
IsUrlProcessedAlone(url, urls) == urls = {url}

\* is_url_processed(url), lines 57-67
IsUrlProcessed(url, urls) == url \in urls

\* the URL put into the set whether or not there is a soup
ProcessedAfterAnyFetch(urls, url, got_soup) == urls \cup {url}

\* the URL never put into the set
ProcessedAfterNoFetch(urls, url, got_soup) == urls

\* lines 107-116: the set after the fetch; without a soup the function returns at
\* line 110, with one the URL is added at line 116
ProcessedAfterFetch(urls, url, got_soup) == IF got_soup THEN urls \cup {url} ELSE urls

\* scrape_standings(url, year), lines 89-123
ScrapeStandings(url, yr) ==
    /\ pc = "scraper"
    /\ before' = AtOperation
    /\ IF IsUrlProcessed(url, processed_urls)
       THEN /\ result' = [status |-> "skipped", url |-> url, reason |-> "already_processed",
                          year |-> 0, data |-> <<>>]
            /\ effects' = Effects("scrape", url, FALSE, FALSE, "no")
            /\ UNCHANGED <<processed_urls, processed_urls_file, marked>>
       ELSE \E resp \in WebResponses :
               IF ~GotSoup(resp)
               THEN /\ result' = [status |-> "failed", url |-> url, reason |-> "fetch_failed",
                                  year |-> 0, data |-> <<>>]
                    /\ effects' = Effects("scrape", url, TRUE, FALSE, "no")
                    /\ processed_urls' = ProcessedAfterFetch(processed_urls, url, FALSE)
                    /\ UNCHANGED <<processed_urls_file, marked>>
               ELSE /\ processed_urls' = ProcessedAfterFetch(processed_urls, url, TRUE)
                    /\ \E outcome \in SaveOutcomes :
                          /\ processed_urls_file'
                                \in SavedProcessedUrls(processed_urls', processed_urls_file, outcome)
                          /\ effects' = Effects("scrape", url, TRUE, TRUE, outcome)
                    /\ marked' = marked \cup {url}
                    /\ result' = [status |-> "success", url |-> url, reason |-> "",
                                  year |-> yr, data |-> ExtractStandings(resp.page, yr)]
    /\ UNCHANGED csv_file
    /\ ScrapeFrame

\* main.py, lines 127-131: update_csv_with_standings(result['data'], year) after a
\* scrape that succeeded
UpdateCsvAfterScrape ==
    /\ pc = "scraper"
    /\ effects.op = "scrape"
    /\ result.status = "success"
    /\ before' = AtOperation
    /\ LET csv_data == ReadCsv(csv_file)
           headers == csv_data.headers
           year_column_name == YearColumnName(result.year)
       IN  IF \E i \in 1..Len(headers) : headers[i] = year_column_name
           THEN /\ csv_file' = WriteCsv(headers,
                                        UpdateRows(csv_data.rows, result.data,
                                                   HeaderIndex(headers, year_column_name)))
                /\ effects' = Effects("update_csv", result.url, FALSE, FALSE, "written")
           ELSE /\ csv_file' = ReturnedWithoutWriting(csv_file, csv_data)
                /\ effects' = Effects("update_csv", result.url, FALSE, FALSE, "no")
    /\ UNCHANGED <<processed_urls, processed_urls_file, marked, result>>
    /\ ScrapeFrame

\* mark_url_processed(url), lines 69-77, called on its own
MarkUrlProcessedCall(url) ==
    /\ pc = "scraper"
    /\ before' = AtOperation
    /\ processed_urls' = processed_urls \cup {url}
    /\ \E outcome \in SaveOutcomes :
          /\ processed_urls_file'
                \in SavedProcessedUrls(processed_urls', processed_urls_file, outcome)
          /\ effects' = Effects("mark", url, FALSE, FALSE, outcome)
    /\ result' = NoResult
    /\ UNCHANGED <<csv_file, marked>>
    /\ ScrapeFrame

\* clear_processed_urls(), lines 366-370
ClearProcessedUrls ==
    /\ pc = "scraper"
    /\ before' = AtOperation
    /\ processed_urls' = {}
    /\ \E outcome \in SaveOutcomes :
          /\ processed_urls_file'
                \in SavedProcessedUrls(processed_urls', processed_urls_file, outcome)
          /\ effects' = Effects("clear", "", FALSE, FALSE, outcome)
    /\ marked' = {}
    /\ result' = NoResult
    /\ UNCHANGED csv_file
    /\ ScrapeFrame

NextScrape ==
    \/ NewScraper
    \/ \E url \in Urls, yr \in Years : ScrapeStandings(url, yr)
    \/ UpdateCsvAfterScrape
    \/ \E url \in Urls : MarkUrlProcessedCall(url)
    \/ ClearProcessedUrls

SpecScrape == InitScrape /\ [][NextScrape]_vars

(***************************************************************************)
(* Properties of scrape_standings and of the processed URLs.               *)
(***************************************************************************)
\* the last operation was a scrape_standings call
Scraped == effects.op = "scrape" /\ before # <<>>

\* the set and the file of processed URLs are what they were before the operation
ProcessedUrlsAsBefore ==
    /\ processed_urls = before[1].processed_urls
    /\ processed_urls_file = before[1].processed_urls_file

\* C24: scrape_standings with a URL that is in processed_urls returns 'skipped',
\* 'already_processed', has not fetched and not extracted, and processed_urls and
\* its file are what they were.
C24_ProcessedUrlSkipped ==
    Scraped /\ effects.url \in before[1].processed_urls =>
        /\ result.status = "skipped"
        /\ result.reason = "already_processed"
        /\ result.url = effects.url
        /\ result.data = <<>>
        /\ ~effects.fetched /\ ~effects.extracted /\ effects.saved = "no"
        /\ ProcessedUrlsAsBefore

\* a second URL skipped with two URLs processed and their file written
C24_Witness ==
    /\ Scraped /\ result.status = "skipped"
    /\ Cardinality(processed_urls) = 2
    /\ processed_urls_file.exists /\ Len(processed_urls_file.urls) = 2
    /\ ~effects.fetched

\* C25: scrape_standings whose fetch gave no soup returns 'failed', 'fetch_failed'
\* and leaves processed_urls and its file as they were, the URL not among them;
\* the next scrape_standings call for that URL fetches again.
C25_FetchFailedChangesNothing ==
    /\ Scraped /\ effects.fetched /\ ~effects.extracted =>
          /\ result.status = "failed"
          /\ result.reason = "fetch_failed"
          /\ result.url = effects.url
          /\ ProcessedUrlsAsBefore
          /\ effects.url \notin processed_urls
    /\ Scraped /\ before[1].op = "scrape" /\ before[1].status = "failed"
               /\ before[1].url = effects.url =>
          effects.fetched

\* a fetch that fails after a fetch of the same URL that failed, with the other
\* URL processed and on file
C25_Witness ==
    /\ Scraped /\ result.status = "failed" /\ effects.fetched
    /\ before[1].op = "scrape" /\ before[1].status = "failed" /\ before[1].url = effects.url
    /\ processed_urls # {} /\ processed_urls_file.exists

\* C26: when scrape_standings had a soup it returns 'success' with the URL in
\* processed_urls, whatever was extracted and before the CSV file is updated; the
\* URLs a scraper has scraped so stay in its processed_urls until
\* clear_processed_urls, and scrape_standings for one of them returns 'skipped',
\* also after an update of the CSV file that wrote nothing.
C26_SuccessMarksUntilCleared ==
    /\ Scraped /\ effects.extracted =>
          /\ result.status = "success"
          /\ effects.url \in processed_urls
          /\ effects.url \in marked
    /\ effects.op = "update_csv" /\ before # <<>> =>
          /\ before[1].op = "scrape" /\ before[1].status = "success"
          /\ effects.url \in before[1].processed_urls
          /\ effects.url \in processed_urls
    /\ marked \subseteq processed_urls
    /\ Scraped /\ effects.url \in before[1].marked => result.status = "skipped"
    /\ before # <<>> /\ effects.op \notin {"clear", "construct"} => before[1].marked \subseteq marked

\* a URL scraped with success, its file not written, the CSV file left unwritten
\* by the update, and the next scrape_standings call for it skipped
C26_Witness ==
    /\ Scraped /\ result.status = "skipped"
    /\ before[1].op = "update_csv" /\ before[1].saved = "no"
    /\ before[1].url = effects.url
    /\ effects.url \in before[1].marked
    /\ effects.url \notin LoadProcessedUrls(processed_urls_file)

\* a scrape that succeeded without a record
ZeroRecordsMarked ==
    /\ Scraped /\ result.status = "success" /\ result.data = <<>>
    /\ effects.url \in processed_urls

\* the last operation made a new scraper
Constructed == effects.op = "construct" /\ before # <<>>

\* C29: a scraper made after mark_url_processed(u) wrote the file has the set the
\* marking scraper had, with u in it; a scraper made after clear_processed_urls
\* has the empty set.
C29_NewScraperHasWhatWasSaved ==
    /\ Constructed /\ before[1].op = "mark" /\ before[1].saved = "written" =>
          /\ processed_urls = before[1].processed_urls
          /\ before[1].url \in processed_urls
    /\ Constructed /\ before[1].op = "clear" => processed_urls = {}

\* What holds of C29: the new scraper has the set of the scraper that marked or
\* cleared when that scraper's file was written.
NewScraperHasWhatWasWritten ==
    /\ Constructed /\ before[1].op \in {"mark", "clear"} /\ before[1].saved = "written" =>
          processed_urls = before[1].processed_urls
    /\ Constructed /\ before[1].op = "mark" /\ before[1].saved = "written" =>
          before[1].url \in processed_urls
    /\ Constructed /\ before[1].op = "clear" /\ before[1].saved = "written" =>
          processed_urls = {}

\* two URLs written by the marking scraper and read by the new one
TwoUrlsReadBack ==
    /\ Constructed /\ before[1].op = "mark" /\ before[1].saved = "written"
    /\ Cardinality(processed_urls) = 2

\* a scraper made after clear_processed_urls that has a URL
ClearedButRead ==
    /\ Constructed /\ before[1].op = "clear" /\ before[1].processed_urls = {}
    /\ processed_urls # {}

(***************************************************************************)
(* The API: the DataLoader made when the module is imported, load_data     *)
(* (called by the start-up handler, main.py lines 90-98), and the handlers *)
(* of the requests.  A CSV file is the list of its rows, each row with the *)
(* columns that are used; sport, division and gender are left at their     *)
(* defaults and no request filters by them.                                *)
(***************************************************************************)
Wrestling == "wrestling"

NaiaDivision == "naia"

Mens == "mens"

Kcac == <<"K", "C", "A", "C">>

\* what follows the name in a key of the conference cache
KeyTail == <<"|", "w", "r", "e", "s", "t", "l", "i", "n", "g", "|", "n", "a", "i", "a", "|", "m", "e", "n", "s">>

Iowa == <<"I", "A">>

\* a row of the main CSV file
SchoolRow(school, region, place) ==
    [School |-> school, Region |-> region, Place2024 |-> place]

\* a row of the sorted CSV file
StandingRow(yr, conference, place, school) ==
    [Year |-> yr, Conference |-> conference, Place |-> place, School |-> school]

\* a file that cannot be opened or read
Unreadable == [readable |-> FALSE, rows |-> <<>>]

Readable(rows) == [readable |-> TRUE, rows |-> rows]

MainCsvFiles ==
    {Unreadable,
     Readable(<<SchoolRow(<<"A", "b">>, Iowa, <<"1">>)>>),
     Readable(<<SchoolRow(<<"A", "b">>, Iowa, <<"1">>), SchoolRow(<<"C", "d">>, Iowa, <<>>)>>)}

\* two standings of one conference and year with the second place first, one
\* standing of another conference and year, and a file with a row without a year
SortedCsvFiles ==
    {Unreadable,
     Readable(<<StandingRow(<<"2", "0", "2", "4">>, CascadeConference, <<"2">>, <<"C", "d">>),
                StandingRow(<<"2", "0", "2", "4">>, CascadeConference, <<"1">>, <<"A", "b">>)>>),
     Readable(<<StandingRow(<<"2", "0", "2", "5">>, Kcac, <<"1">>, <<"A", "b">>)>>),
     Readable(<<StandingRow(<<"2", "0", "2", "4">>, CascadeConference, <<"1">>, <<"A", "b">>),
                StandingRow(<<>>, CascadeConference, <<"1">>, <<"C", "d">>)>>)}

\* int(text) does not raise
IntOk(t) == IsDigitStr(Strip(t))

\* int(text)
IntOf(t) == Val(Strip(t))

\* lines 34-45 of data_loader.py
StandingOfRow(row) ==
    [sport |-> Wrestling, division |-> NaiaDivision, gender |-> Mens,
     year |-> IntOf(row.Year), conference |-> row.Conference,
     place |-> IntOf(row.Place), school |-> row.School]

\* the rows can all be made into standings
StandingsOk(rows) == \A i \in 1..Len(rows) : IntOk(rows[i].Year) /\ IntOk(rows[i].Place)

\* lines 74-83: the key and the Conference of a cache entry; the sorted lists of
\* schools and years are given as the sets they list
ConferenceOf(name, standings_data) ==
    [key |-> name \o KeyTail,
     name |-> name, sport |-> Wrestling, division |-> NaiaDivision, gender |-> Mens,
     schools |-> {standings_data[i].school :
                     i \in {j \in 1..Len(standings_data) : standings_data[j].conference = name}},
     years_active |-> {standings_data[i].year :
                          i \in {j \in 1..Len(standings_data) : standings_data[j].conference = name}}]

\* the indices of the standings that are the first of their conference
FirstOfConference(standings_data) ==
    {i \in 1..Len(standings_data) :
        \A j \in 1..(i - 1) : standings_data[j].conference # standings_data[i].conference}

\* the k-th smallest element of a set of numbers
Kth(S, k) == CHOOSE i \in S : Cardinality({j \in S : j <= i}) = k

\* _build_conferences_cache, lines 56-83: an entry for each conference, in the
\* order in which the conferences first occur
BuildConferencesCache(standings_data) ==
    [k \in 1..Cardinality(FirstOfConference(standings_data)) |->
        ConferenceOf(standings_data[Kth(FirstOfConference(standings_data), k)].conference,
                     standings_data)]

\* where load_data can leave its try block: at the main file, at the sorted file,
\* at the making of the standings, in _build_conferences_cache, or nowhere
FailedAt(main, sorted, cache_raises) ==
    IF ~main.readable THEN "main"
    ELSE IF ~sorted.readable THEN "sorted"
    ELSE IF ~StandingsOk(sorted.rows) THEN "standings"
    ELSE IF cache_raises THEN "cache"
    ELSE "none"

\* lines 50-54: loaded is set to True at the end of the try block and is not
\* touched when the block is left by an exception
LoadedAfter(was_loaded, failed_at) == IF failed_at = "none" THEN TRUE ELSE was_loaded

\* DataLoader.load_data, lines 21-54, on the files as they are when it is called
LoadData ==
    /\ pc = "api"
    /\ \E main \in MainCsvFiles, sorted \in SortedCsvFiles, cache_raises \in BOOLEAN :
          LET failed_at == FailedAt(main, sorted, cache_raises)
              standings_data == [i \in 1..Len(sorted.rows) |-> StandingOfRow(sorted.rows[i])]
          IN  /\ data_loader' =
                    [schools_data |->
                        IF failed_at = "main" THEN data_loader.schools_data ELSE main.rows,
                     standings_data |->
                        IF failed_at \in {"main", "sorted", "standings"}
                        THEN data_loader.standings_data ELSE standings_data,
                     conferences_cache |->
                        IF failed_at = "none" THEN BuildConferencesCache(standings_data)
                        ELSE data_loader.conferences_cache,
                     loaded |-> LoadedAfter(data_loader.loaded, failed_at)]
              /\ load' = [called |-> TRUE,
                          was_loaded |-> data_loader.loaded,
                          main_read |-> failed_at # "main",
                          sorted_read |-> failed_at \notin {"main", "sorted"},
                          cache_built |-> failed_at = "none",
                          returned |-> failed_at = "none"]
    /\ response' = NoResponse
    /\ UNCHANGED <<tokenizerVars, extractVars, storeVars, scrapeVars>>

\* HTTPException(status_code=503, detail="Data not loaded")
NotLoaded(endpoint) ==
    [endpoint |-> endpoint, status |-> 503, detail |-> "Data not loaded", data |-> <<>>]

\* the guard each handler of /api/v1 starts with, lines 167-168, 199-200, 226-227,
\* 247-248, 284-285, 330-331, 365-366 and 389-390 of main.py
Answered(endpoint, loaded, answer) == IF ~loaded THEN NotLoaded(endpoint) ELSE answer

Ok(endpoint, data) == [endpoint |-> endpoint, status |-> 200, detail |-> "", data |-> data]

NotFound(endpoint, detail) ==
    [endpoint |-> endpoint, status |-> 404, detail |-> detail, data |-> <<>>]

\* a request is answered
Respond(answer) ==
    /\ pc = "api"
    /\ response' = answer
    /\ UNCHANGED <<data_loader, load>>
    /\ UNCHANGED <<tokenizerVars, extractVars, storeVars, scrapeVars>>

\* lines 100-126 of data_loader.py: the School of a row of the main file
SchoolOfRow(row) ==
    [name |-> row.School, sport |-> Wrestling, division |-> NaiaDivision, gender |-> Mens,
     conference |-> row.Region,
     placements |-> IF Strip(row.Place2024) = <<>> THEN <<>>
                    ELSE <<[year |-> 2024, place |-> IntOf(Strip(row.Place2024)),
                            conference |-> row.Region]>>]

\* get_all_schools, lines 85-128
GetAllSchools(loader) ==
    [i \in 1..Len(loader.schools_data) |-> SchoolOfRow(loader.schools_data[i])]

\* GET /api/v1/schools, lines 158-181 of main.py
GetSchools ==
    Respond(Answered("schools", data_loader.loaded,
                     Ok("schools", GetAllSchools(data_loader))))

\* the names that may be asked for
AskedNames == {<<"a", "b">>, <<"c", "a", "s">>, <<"Z", "z">>}

\* lines 135 and 194 of data_loader.py: one name in lower case is part of the other
MatchesName(name, found) ==
    \/ Contains(ToLower(found), ToLower(name))
    \/ Contains(ToLower(name), ToLower(found))

\* get_school_by_name, lines 130-174: the rows that match the name
SchoolRowsNamed(loader, name) ==
    {i \in 1..Len(loader.schools_data) :
        MatchesName(name, loader.schools_data[i].School)}

\* GET /api/v1/schools/{school_name}, lines 192-210
GetSchool(name) ==
    Respond(Answered("school", data_loader.loaded,
                     IF SchoolRowsNamed(data_loader, name) = {}
                     THEN NotFound("school", "School not found")
                     ELSE Ok("school",
                             <<SchoolOfRow(data_loader.schools_data[
                                              MinOf(SchoolRowsNamed(data_loader, name))])>>)))

\* GET /api/v1/conferences, lines 220-229, with get_all_conferences
GetConferences ==
    Respond(Answered("conferences", data_loader.loaded,
                     Ok("conferences", data_loader.conferences_cache)))

\* get_conference_by_name, lines 189-197: the entries whose key matches
ConferencesNamed(loader, name) ==
    {i \in 1..Len(loader.conferences_cache) :
        MatchesName(name, loader.conferences_cache[i].key)}

\* GET /api/v1/conferences/{conference_name}, lines 240-266
GetConference(name) ==
    Respond(Answered("conference", data_loader.loaded,
                     IF ConferencesNamed(data_loader, name) = {}
                     THEN NotFound("conference", "Conference not found")
                     ELSE Ok("conference",
                             <<data_loader.conferences_cache[
                                  MinOf(ConferencesNamed(data_loader, name))]>>)))

\* list.sort(key=lambda x: x.place): by place, equal places in their order
RECURSIVE SortByPlace(_)
SortByPlace(standings_list) ==
    IF standings_list = <<>> THEN <<>>
    ELSE LET front == SortByPlace(SubSeq(standings_list, 1, Len(standings_list) - 1))
             x == standings_list[Len(standings_list)]
             n == Cardinality({i \in 1..Len(front) : front[i].place <= x.place})
         IN  SubSeq(front, 1, n) \o <<x>> \o SubSeq(front, n + 1, Len(front))

\* the standings whose conference has the name as a part
StandingsOfConferenceNamed(loader, name) ==
    {i \in 1..Len(loader.standings_data) :
        Contains(ToLower(loader.standings_data[i].conference), ToLower(name))}

\* the standings of the list with the conference and the year
StandingsOf(loader, conference, yr) ==
    SelectSeq(loader.standings_data, LAMBDA st : st.conference = conference /\ st.year = yr)

\* get_conference_standings, lines 266-292: the standings of the first conference
\* that matches, grouped by year in the order the years occur, each group by place
ConferenceStandings(loader, name) ==
    IF StandingsOfConferenceNamed(loader, name) = {} THEN <<>>
    ELSE LET matching_conf ==
                 loader.standings_data[MinOf(StandingsOfConferenceNamed(loader, name))].conference
             firsts == {i \in 1..Len(loader.standings_data) :
                           /\ loader.standings_data[i].conference = matching_conf
                           /\ \A j \in 1..(i - 1) :
                                 loader.standings_data[j].conference = matching_conf
                                 => loader.standings_data[j].year # loader.standings_data[i].year}
         IN  [k \in 1..Cardinality(firsts) |->
                 [year |-> loader.standings_data[Kth(firsts, k)].year,
                  standings |-> SortByPlace(StandingsOf(loader, matching_conf,
                                                        loader.standings_data[Kth(firsts, k)].year))]]

\* GET /api/v1/conferences/{conference_name}/standings, lines 277-312
GetConferenceStandings(name) ==
    Respond(Answered("conference_standings", data_loader.loaded,
                     IF ConferenceStandings(data_loader, name) = <<>>
                     THEN NotFound("conference_standings", "Conference not found")
                     ELSE Ok("conference_standings", ConferenceStandings(data_loader, name))))

\* get_standings_by_year, lines 199-212 of data_loader.py
StandingsByYear(loader, yr) == SelectSeq(loader.standings_data, LAMBDA st : st.year = yr)

\* GET /api/v1/standings/{year}, lines 322-346
GetStandingsByYear(yr) ==
    Respond(Answered("standings_by_year", data_loader.loaded,
                     IF StandingsByYear(data_loader, yr) = <<>>
                     THEN NotFound("standings_by_year", "No standings found for year")
                     ELSE Ok("standings_by_year", StandingsByYear(data_loader, yr))))

\* get_standings_by_year_and_conference, lines 214-264 of data_loader.py
StandingsByYearAndConference(loader, yr, name) ==
    IF StandingsOfConferenceNamed(loader, name) = {} THEN <<>>
    ELSE SortByPlace(StandingsOf(loader,
                                 loader.standings_data[
                                     MinOf(StandingsOfConferenceNamed(loader, name))].conference,
                                 yr))

\* GET /api/v1/standings/{year}/{conference_name}, lines 357-378
GetStandingsByYearAndConference(yr, name) ==
    Respond(Answered("standings_by_year_and_conference", data_loader.loaded,
                     IF StandingsByYearAndConference(data_loader, yr, name) = <<>>
                     THEN NotFound("standings_by_year_and_conference", "No standings found")
                     ELSE Ok("standings_by_year_and_conference",
                             StandingsByYearAndConference(data_loader, yr, name))))

\* DataLoader.get_stats, lines 294-301 of data_loader.py
Stats(loader) ==
    [total_schools |-> Len(loader.schools_data),
     total_standings |-> Len(loader.standings_data),
     total_conferences |-> Len(loader.conferences_cache),
     years_covered |-> Cardinality({loader.standings_data[i].year :
                                      i \in 1..Len(loader.standings_data)})]

\* GET /api/v1/stats, lines 387-400
GetStats == Respond(Answered("stats", data_loader.loaded, Ok("stats", <<Stats(data_loader)>>)))

\* GET /health, lines 138-148: answered whether or not the data is loaded
HealthCheck ==
    Respond([endpoint |-> "health", status |-> 200,
             detail |-> IF data_loader.loaded THEN "healthy" ELSE "unhealthy",
             data |-> <<[data_loaded |-> data_loader.loaded,
                         total_schools |-> Stats(data_loader).total_schools,
                         total_standings |-> Stats(data_loader).total_standings]>>])

InitApi ==
    /\ TokenizerIdle
    /\ ScrapeIdle
    /\ StoreEmpty
    /\ soup = <<>>
    /\ year = 2024
    /\ conf_headers = <<>>
    /\ visited = 0
    /\ all_standings = <<>>
    /\ passes = <<>>
    /\ returned = <<>>
    /\ before = <<>>
    /\ ApiIdle
    /\ pc = "api"

NextApi ==
    \/ LoadData
    \/ GetSchools
    \/ \E name \in AskedNames : GetSchool(name)
    \/ GetConferences
    \/ \E name \in AskedNames : GetConference(name)
    \/ \E name \in AskedNames : GetConferenceStandings(name)
    \/ \E yr \in Years : GetStandingsByYear(yr)
    \/ \E yr \in Years, name \in AskedNames : GetStandingsByYearAndConference(yr, name)
    \/ GetStats
    \/ HealthCheck

SpecApi == InitApi /\ [][NextApi]_vars

(***************************************************************************)
(* Properties of the API.                                                  *)
(***************************************************************************)
\* the last request was to an endpoint under /api/v1
ApiAnswered == response.endpoint \notin {"none", "health"}

\* load_data was called and the last call left its try block by an exception
LoadFailed == load.called /\ ~load.returned

NotLoadedUntilFirstLoadSucceeds ==
    /\ ~load.called => ~data_loader.loaded
    /\ LoadFailed => data_loader.loaded = load.was_loaded
    /\ ApiAnswered /\ ~data_loader.loaded => response = NotLoaded(response.endpoint)
    /\ load.called /\ ~load.was_loaded /\ data_loader.loaded =>
          load.main_read /\ load.sorted_read /\ load.cache_built /\ load.returned

\* a request answered 503 after a load_data call that failed at the sorted file
\* and had replaced the schools
AnsweredNotLoaded ==
    /\ LoadFailed /\ load.main_read /\ ~load.sorted_read
    /\ ~data_loader.loaded /\ data_loader.schools_data # <<>>
    /\ response = NotLoaded("schools")

\* the statistics served after a load_data call that failed: the schools of the new
\* main file counted with the standings of the old sorted file
ServedAfterFailedLoad ==
    /\ LoadFailed /\ data_loader.loaded
    /\ response.endpoint = "stats" /\ response.status = 200
    /\ response.data[1].total_schools = 2
    /\ response.data[1].total_standings = 2
    /\ load.main_read /\ ~load.sorted_read

====
